---- MODULE Spec2Model ----
(***************************************************************************)
(* A model of the richerror library (package errors), of its code         *)
(* generator (errorGenerator and its tag filter) and of the code the       *)
(* generator produces.                                                     *)
(*                                                                         *)
(* Go strings are sequences of tokens, so that concatenation, trimming,    *)
(* lower-casing and "last index of" are computed and not assumed.  Go maps *)
(* and slices are references into a heap: a richError struct is copied by  *)
(* value at every method call (value receivers), but the map and the       *)
(* backing arrays its fields point to are shared between the copies.       *)
(***************************************************************************)
EXTENDS Integers, Sequences, FiniteSets

VARIABLES
    errs,                   \* holder variable -> the richError value it holds
    held,                   \* the holder variables that have been assigned
    hist,                   \* history of the value each holder variable holds
    pkgFormatSet,           \* history: SetGlobalErrorOutputFormat has been called
    heap,                   \* maps and backing arrays of slices
    errorOutputFormat,      \* package variable errorOutputFormat
    customOutputFunction,   \* package variable customOutputFunction
    clock,                  \* time.Now()
    last,                   \* the last call made and its arguments
    out,                    \* the result of the last render call
    steps,                  \* number of calls made so far
    gen                     \* the generator: catalog, filter tags, filter result

vars == <<errs, held, hist, pkgFormatSet, heap, errorOutputFormat,
          customOutputFunction, clock, last, out, steps, gen>>

(***************************************************************************)
(* Bounds of the model.                                                    *)
(***************************************************************************)
MaxSteps == 3
MaxChain == 12

(***************************************************************************)
(* Program constants.                                                      *)
(***************************************************************************)
NotSpecified == 0
CustomOutput == 1
DetailedOutput == 2
FullOutputFormatted == 3
FullOutputInline == 4
ShortDetailedOutput == 5
ShortOutput == 6
baseStackOffset == 2
MaxCallers == 10

(***************************************************************************)
(* Strings.                                                                *)
(***************************************************************************)
EmptyString == <<>>

Str(t) == <<t>>

Digit(d) ==
    CASE d = 0 -> "0" [] d = 1 -> "1" [] d = 2 -> "2" [] d = 3 -> "3"
      [] d = 4 -> "4" [] d = 5 -> "5" [] d = 6 -> "6" [] d = 7 -> "7"
      [] d = 8 -> "8" [] OTHER -> "9"

\* strconv.Itoa and the %d verb, for n >= 0: one token per digit
RECURSIVE Itoa(_)
Itoa(n) == IF n < 10 THEN <<Digit(n)>> ELSE Itoa(n \div 10) \o <<Digit(n % 10)>>

\* strings.LastIndex(s, sep) for a one-token separator: 0-based, -1 if absent
LastIndex(s, sep) ==
    LET hits == {k \in 1..Len(s) : s[k] = sep}
    IN  IF hits = {} THEN 0 - 1
        ELSE (CHOOSE k \in hits : \A m \in hits : m <= k) - 1

\* s[from:] with a 0-based index
SliceFrom(s, from) == SubSeq(s, from + 1, Len(s))

\* strings.Repeat(s, n)
RECURSIVE Repeat(_, _)
Repeat(s, n) == IF n <= 0 THEN <<>> ELSE s \o Repeat(s, n - 1)

\* does the text s hold the token t
Holds(s, t) == \E k \in 1..Len(s) : s[k] = t

\* number of occurrences of token t in s
Count(s, t) == Cardinality({k \in 1..Len(s) : s[k] = t})

(***************************************************************************)
(* The heap: maps and the backing arrays of slices.                        *)
(***************************************************************************)
NilMap == 0

NilSlice == [arr |-> 0, len |-> 0, cap |-> 0]

EmptyHeap == [maps |-> <<>>, tags |-> <<>>, errors |-> <<>>, frames |-> <<>>]

NoKeys == [k \in {} |-> <<>>]

\* the elements a slice shows: s[0:len]
Elems(arrays, s) == IF s.len = 0 THEN <<>> ELSE SubSeq(arrays[s.arr], 1, s.len)

\* the capacity of the array append allocates when the old one is too small
GrowCap(oldCap, newLen) == IF newLen > 2 * oldCap THEN newLen ELSE 2 * oldCap

\* append(s, elems...): writes in place when the capacity allows, else
\* copies into a new array; gives the new arrays and the new slice
AppendSlice(arrays, s, elems, zero) ==
    LET n == s.len + Len(elems) IN
    IF Len(elems) = 0 THEN [arrays |-> arrays, slice |-> s]
    ELSE IF n <= s.cap
    THEN [arrays |-> [arrays EXCEPT ![s.arr] =
                        [k \in 1..s.cap |->
                            IF k > s.len /\ k <= n THEN elems[k - s.len] ELSE @[k]]],
          slice |-> [s EXCEPT !.len = n]]
    ELSE LET c == GrowCap(s.cap, n)
             a == [k \in 1..c |->
                    IF k <= s.len THEN arrays[s.arr][k]
                    ELSE IF k <= n THEN elems[k - s.len] ELSE zero]
         IN  [arrays |-> Append(arrays, a),
              slice |-> [arr |-> Len(arrays) + 1, len |-> n, cap |-> c]]

\* a slice literal []T{elems...}
SliceLiteral(arrays, elems) ==
    [arrays |-> Append(arrays, elems),
     slice |-> [arr |-> Len(arrays) + 1, len |-> Len(elems), cap |-> Len(elems)]]

(***************************************************************************)
(* Values.                                                                 *)
(***************************************************************************)
NoFunc == "nil"

NilError == [kind |-> "nil"]

PlainError(text) == [kind |-> "plain", text |-> text]

Boxed(e) == [kind |-> "rich", val |-> e]

ZeroFrame ==
    [Depth |-> 0, Entry |-> 0, File |-> EmptyString, Function |-> EmptyString,
     Line |-> 0, PC |-> 0]

ZeroRichError ==
    [ErrCode |-> EmptyString, Message |-> EmptyString, Source |-> EmptyString,
     Function |-> EmptyString, Line |-> EmptyString, OccurredAt |-> 0,
     Tags |-> NilSlice, Stack |-> NilSlice, InnerErrors |-> NilSlice,
     MetaData |-> NilMap, outputFormat |-> NotSpecified,
     customOutputFunction |-> NoFunc]

\* the k-th function of the call chain above WithStack (k = 0: its caller)
ChainFrame(k) ==
    [Entry |-> 100 + k, File |-> <<"main.go">>,
     Function |-> <<"main", ".", "f", ".", "func">> \o Itoa(k),
     Line |-> 10 + k, PC |-> 200 + k]

\* runtime.Callers(skip, buf) with len(buf) = size: the frames it stores, for
\* a call chain of `depth` functions above WithStack.  skip = 0 names Callers
\* itself and skip = 1 WithStack, so skip = baseStackOffset names the caller.
Callers(skip, size, depth) ==
    LET first == skip - baseStackOffset
        avail == depth - first
        n     == IF avail < 0 THEN 0 ELSE IF avail > size THEN size ELSE avail
    IN  [i \in 1..n |-> ChainFrame(first + i - 1)]

(***************************************************************************)
(* Constructors and mutators.  Each takes the heap h and the receiver e    *)
(* (a copy of the struct: value receiver) and gives the heap after the     *)
(* call and the value returned.                                            *)
(***************************************************************************)
\* mutant: the package-wide format is stored in the error when it is made
NewRichErrorCapturing(h, errCode, message, now) ==
    [h |-> h,
     e |-> [ZeroRichError EXCEPT !.ErrCode = errCode, !.Message = message,
                                 !.OccurredAt = now,
                                 !.outputFormat = errorOutputFormat]]

NewRichError(h, errCode, message, now) ==
    [h |-> h,
     e |-> [ZeroRichError EXCEPT !.ErrCode = errCode, !.Message = message,
                                 !.OccurredAt = now]]

\* the loop of WithStack, from iteration i (0-based) on
RECURSIVE WithStackLoop(_, _, _, _)
WithStackLoop(h, e, frames, i) ==
    IF i >= Len(frames) THEN [h |-> h, e |-> e]
    ELSE
      LET nextFrame == frames[i + 1]
          functionName ==
              IF Len(nextFrame.Function) > 0
              THEN SliceFrom(nextFrame.Function,
                             LastIndex(nextFrame.Function, ".") + 1)
              ELSE nextFrame.Function
          e1 == IF i = 0
                THEN [e EXCEPT !.Source = nextFrame.File,
                               !.Function = functionName,
                               !.Line = Itoa(nextFrame.Line)]
                ELSE e
          entry == [Depth |-> i, Entry |-> nextFrame.Entry,
                    File |-> nextFrame.File, Function |-> nextFrame.Function,
                    Line |-> nextFrame.Line, PC |-> nextFrame.PC]
          r == AppendSlice(h.frames, e1.Stack, <<entry>>, ZeroFrame)
      IN  WithStackLoop([h EXCEPT !.frames = r.arrays],
                        [e1 EXCEPT !.Stack = r.slice], frames, i + 1)

\* mutant: the frames captured replace the stack
WithStackReplacing(h, e, stackOffset, depth) ==
    WithStackLoop(h, [e EXCEPT !.Stack = NilSlice],
                  Callers(baseStackOffset + stackOffset, MaxCallers, depth), 0)

\* mutant: the offset of the caller is not added to the frames skipped
WithStackNoOffset(h, e, stackOffset, depth) ==
    WithStackLoop(h, e, Callers(baseStackOffset, MaxCallers, depth), 0)

WithStack(h, e, stackOffset, depth) ==
    WithStackLoop(h, e, Callers(baseStackOffset + stackOffset, MaxCallers, depth), 0)

NewRichErrorWithStack(h, errCode, message, now, stackOffset, depth) ==
    LET r == NewRichError(h, errCode, message, now)
    IN  WithStack(r.h, r.e, stackOffset, depth + 1)

\* mutant: the keys of the receiver's map are kept
WithMetaDataMerged(h, e, metaData) ==
    LET old == IF e.MetaData = NilMap THEN NoKeys ELSE h.maps[e.MetaData]
        new == IF metaData = NilMap THEN NoKeys ELSE h.maps[metaData]
        all == [k \in DOMAIN old \cup DOMAIN new |->
                  IF k \in DOMAIN new THEN new[k] ELSE old[k]]
    IN  [h |-> [h EXCEPT !.maps = Append(@, all)],
         e |-> [e EXCEPT !.MetaData = Len(h.maps) + 1]]

WithMetaData(h, e, metaData) ==
    [h |-> h, e |-> [e EXCEPT !.MetaData = metaData]]

\* mutant: the list replaces the inner errors
WithErrorsReplaced(h, e, errList) ==
    LET r == SliceLiteral(h.errors, errList)
    IN  [h |-> [h EXCEPT !.errors = r.arrays],
         e |-> [e EXCEPT !.InnerErrors = r.slice]]

WithErrors(h, e, errList) ==
    LET r == AppendSlice(h.errors, e.InnerErrors, errList, NilError)
    IN  [h |-> [h EXCEPT !.errors = r.arrays],
         e |-> [e EXCEPT !.InnerErrors = r.slice]]

WithTags(h, e, tags) ==
    [h |-> h, e |-> [e EXCEPT !.Tags = tags]]

\* mutant: the source is stored in the code
AddSourceIntoCode(h, e, source) ==
    [h |-> h, e |-> [e EXCEPT !.ErrCode = source]]

AddSource(h, e, source) ==
    [h |-> h, e |-> [e EXCEPT !.Source = source]]

AddFunction(h, e, function) ==
    [h |-> h, e |-> [e EXCEPT !.Function = function]]

AddLineNumber(h, e, lineNumber) ==
    [h |-> h, e |-> [e EXCEPT !.Line = lineNumber]]

AddMetaData(h, e, key, value) ==
    LET h1 == IF e.MetaData = NilMap
              THEN [h EXCEPT !.maps = Append(@, NoKeys)]
              ELSE h
        m  == IF e.MetaData = NilMap THEN Len(h1.maps) ELSE e.MetaData
        old == h1.maps[m]
    IN  [h |-> [h1 EXCEPT !.maps[m] =
                   [k \in (DOMAIN old) \cup {key} |->
                       IF k = key THEN value ELSE old[k]]],
         e |-> [e EXCEPT !.MetaData = m]]

\* mutant: no nil check
AddErrorUnchecked(h, e, err) ==
    LET r == AppendSlice(h.errors, e.InnerErrors, <<err>>, NilError)
    IN  [h |-> [h EXCEPT !.errors = r.arrays],
         e |-> [e EXCEPT !.InnerErrors = r.slice]]

AddError(h, e, err) ==
    IF err # NilError
    THEN LET r == AppendSlice(h.errors, e.InnerErrors, <<err>>, NilError)
         IN  [h |-> [h EXCEPT !.errors = r.arrays],
              e |-> [e EXCEPT !.InnerErrors = r.slice]]
    ELSE [h |-> h, e |-> e]

\* mutant: the tag replaces the tags
AddTagReplaced(h, e, tag) ==
    LET r == SliceLiteral(h.tags, <<tag>>)
    IN  [h |-> [h EXCEPT !.tags = r.arrays], e |-> [e EXCEPT !.Tags = r.slice]]

AddTag(h, e, tag) ==
    LET r == AppendSlice(h.tags, e.Tags, <<tag>>, EmptyString)
    IN  [h |-> [h EXCEPT !.tags = r.arrays], e |-> [e EXCEPT !.Tags = r.slice]]

SetCustomOutputFunction(h, e, cof) ==
    [h |-> h, e |-> [e EXCEPT !.customOutputFunction = cof]]

SetOutputFormat(h, e, outputFormat) ==
    [h |-> h, e |-> [e EXCEPT !.outputFormat = outputFormat]]

(***************************************************************************)
(* Accessors.                                                              *)
(***************************************************************************)
GetErrorCode(e) == e.ErrCode

GetErrorMessage(e) == e.Message

GetStack(h, e) == Elems(h.frames, e.Stack)

GetSource(e) == e.Source

GetFunction(e) == e.Function

GetLineNumber(e) == e.Line

GetTags(h, e) == Elems(h.tags, e.Tags)

GetMetaData(h, e) == IF e.MetaData = NilMap THEN NoKeys ELSE h.maps[e.MetaData]

NilValue == <<"<nil>">>

GetMetaDataItem(h, e, key) ==
    IF e.MetaData = NilMap THEN <<NilValue, FALSE>>
    ELSE IF key \in DOMAIN h.maps[e.MetaData]
         THEN <<h.maps[e.MetaData][key], TRUE>>
         ELSE <<NilValue, FALSE>>

GetErrors(h, e) == Elems(h.errors, e.InnerErrors)

\* mutant: decided by the source field
HasStackBySource(e) == e.Source # EmptyString

HasStack(e) == e.Stack.len > 0

(***************************************************************************)
(* Rendering.  A render gives [panic, text]; g holds the two package       *)
(* variables [format, cof].  The order in which a map is ranged over is    *)
(* not fixed in Go: `order` is the order of one run of the loop.           *)
(***************************************************************************)
Returns(t) == [panic |-> FALSE, text |-> t]

Panics == [panic |-> TRUE, text |-> <<>>]

TimeString(t) == <<"t">> \o Itoa(t)

\* a custom output function applied to e
ApplyCustom(cof, e) == <<cof, "(">> \o e.ErrCode \o <<")">>

\* callStackEntry.String
FrameString(cse) ==
    <<"L:">> \o Itoa(cse.Depth) \o <<" ">> \o Itoa(cse.Entry) \o <<" - ">>
      \o cse.File \o <<":">> \o Itoa(cse.Line) \o <<" - ">> \o cse.Function

\* mutant: the function of the instance is ignored
getCustomOutputFunctionGlobal(g, e) == g.cof

getCustomOutputFunction(g, e) ==
    IF e.customOutputFunction # NoFunc THEN e.customOutputFunction ELSE g.cof

\* mutant: the format of the instance is ignored
getErrorOutputFormatGlobal(g, e) == g.format

getErrorOutputFormat(g, e) ==
    IF e.outputFormat # NotSpecified THEN e.outputFormat ELSE g.format

shortOutputString(e, separator) ==
    TimeString(e.OccurredAt) \o separator \o e.ErrCode \o separator \o e.Message

shortDetailedOutputString(e, separator) ==
    TimeString(e.OccurredAt) \o separator \o e.ErrCode \o separator \o e.Message
      \o separator \o e.Source \o <<":">> \o e.Line

\* the lines of the loop over the metadata map, in the order `order`
RECURSIVE MetaDataLines(_, _, _, _)
MetaDataLines(m, order, partSeparator, indentString) ==
    IF order = <<>> THEN <<>>
    ELSE partSeparator \o indentString \o Head(order) \o <<": ">> \o m[Head(order)]
           \o MetaDataLines(m, Tail(order), partSeparator, indentString)

metaDataSection(h, e, partSeparator, indentString, order) ==
    IF e.MetaData # NilMap /\ Cardinality(DOMAIN h.maps[e.MetaData]) > 0
    THEN <<"METADATA:">>
           \o MetaDataLines(h.maps[e.MetaData], order, partSeparator, indentString)
    ELSE <<>>

\* the loop over e.Stack of fullOutputString
RECURSIVE StackLines(_, _, _)
StackLines(frames, partSeparator, indentString) ==
    IF frames = <<>> THEN <<>>
    ELSE Repeat(indentString, Head(frames).Depth) \o FrameString(Head(frames))
           \o partSeparator
           \o StackLines(Tail(frames), partSeparator, indentString)

\* mutant: the stack section is written too
detailedOutputStringWithStack(h, e, partSeparator, indentString, order) ==
    <<"ERROR - ">> \o TimeString(e.OccurredAt)
      \o (IF e.ErrCode # EmptyString
          THEN partSeparator \o <<"ERRCODE: ">> \o e.ErrCode ELSE <<>>)
      \o (IF e.Stack.len > 0
          THEN partSeparator \o <<"STACK: ">>
                 \o StackLines(Elems(h.frames, e.Stack), partSeparator, indentString)
          ELSE <<>>)
      \o metaDataSection(h, e, partSeparator, indentString, order)

detailedOutputString(h, e, partSeparator, indentString, order) ==
    <<"ERROR - ">> \o TimeString(e.OccurredAt)
      \o (IF e.Source # EmptyString
          THEN partSeparator \o <<"SOURCE: ">> \o e.Source \o <<":">> \o e.Line
          ELSE <<>>)
      \o (IF e.ErrCode # EmptyString
          THEN partSeparator \o <<"ERRCODE: ">> \o e.ErrCode ELSE <<>>)
      \o (IF e.Message # EmptyString
          THEN partSeparator \o <<"MESSAGE: ">> \o e.Message ELSE <<>>)
      \o metaDataSection(h, e, partSeparator, indentString, order)

\* the text of an error that is no rich error: err.Error()
PlainErrorString(err) == err.text

\* r1 followed by r2; a panic in either ends the render
Then(r1, r2) ==
    IF r1.panic \/ r2.panic THEN Panics ELSE Returns(r1.text \o r2.text)

RECURSIVE ToString(_, _, _, _, _)

\* mutant: a rich inner error is rendered by its own Error()
getInnerErrorStringByError(h, g, err, partSeparator, indentString, index) ==
    IF err.kind = "rich"
    THEN Then(Returns(partSeparator \o Repeat(indentString, index + 1)
                        \o <<"ERROR #">> \o Itoa(index + 1) \o <<": ">>),
              ToString(h, g, err.val,
                       IF err.val.outputFormat # NotSpecified
                       THEN err.val.outputFormat ELSE g.format, <<>>))
    ELSE Returns(partSeparator \o Repeat(indentString, index + 1)
                   \o <<"ERROR #">> \o Itoa(index + 1) \o <<": ">>
                   \o PlainErrorString(err))

getInnerErrorString(h, g, err, partSeparator, indentString, index) ==
    IF err.kind = "rich"
    THEN Then(Returns(partSeparator \o Repeat(indentString, index + 1)
                        \o <<"ERROR #">> \o Itoa(index + 1) \o <<": ">>),
              ToString(h, g, err.val, ShortDetailedOutput, <<>>))
    ELSE Returns(partSeparator \o Repeat(indentString, index + 1)
                   \o <<"ERROR #">> \o Itoa(index + 1) \o <<": ">>
                   \o PlainErrorString(err))

\* the loop over e.InnerErrors of fullOutputString, from index i (0-based) on
RECURSIVE InnerErrorLines(_, _, _, _, _, _)
InnerErrorLines(h, g, innerErrors, partSeparator, indentString, i) ==
    IF i >= Len(innerErrors) THEN Returns(<<>>)
    ELSE Then(IF innerErrors[i + 1] # NilError
              THEN getInnerErrorString(h, g, innerErrors[i + 1], partSeparator,
                                       indentString, i)
              ELSE Returns(<<>>),
              InnerErrorLines(h, g, innerErrors, partSeparator, indentString, i + 1))

fullOutputString(h, g, e, partSeparator, indentString, order) ==
    Then(Returns(
           <<"TIMESTAMP: ">> \o TimeString(e.OccurredAt)
             \o (IF e.Source # EmptyString
                 THEN partSeparator \o <<"SOURCE: ">> \o e.Source ELSE <<>>)
             \o (IF e.Function # EmptyString
                 THEN partSeparator \o <<"FUNCTION: ">> \o e.Function ELSE <<>>)
             \o (IF e.Line # EmptyString
                 THEN partSeparator \o <<"LINE_NUM: ">> \o e.Line ELSE <<>>)
             \o (IF e.ErrCode # EmptyString
                 THEN partSeparator \o <<"ERRCODE: ">> \o e.ErrCode ELSE <<>>)
             \o (IF e.Message # EmptyString
                 THEN partSeparator \o <<"MESSAGE: ">> \o e.Message ELSE <<>>)
             \o (IF e.Stack.len > 0
                 THEN partSeparator \o <<"STACK: ">>
                        \o StackLines(Elems(h.frames, e.Stack), partSeparator,
                                      indentString)
                 ELSE <<>>)),
      Then(IF e.InnerErrors.len > 0
           THEN Then(Returns(<<"INNER ERRORS:">>),
                  Then(InnerErrorLines(h, g, Elems(h.errors, e.InnerErrors),
                                       partSeparator, indentString, 0),
                       Returns(partSeparator)))
           ELSE Returns(<<>>),
           Returns(metaDataSection(h, e, partSeparator, indentString, order))))

ToCustomString(g, e) ==
    LET cof == getCustomOutputFunction(g, e)
    IN  IF cof = NoFunc THEN Panics ELSE Returns(ApplyCustom(cof, e))

\* mutant: a format that is none of the named ones gives the full rendering
ToStringDefaultFull(h, g, e, format, order) ==
    CASE format = CustomOutput -> ToCustomString(g, e)
      [] format = DetailedOutput ->
            Returns(detailedOutputString(h, e, <<"\n">>, <<"\t">>, order))
      [] format = FullOutputInline ->
            fullOutputString(h, g, e, <<" --- ">>, <<>>, order)
      [] format = ShortDetailedOutput ->
            Returns(shortDetailedOutputString(e, <<" - ">>))
      [] format = ShortOutput -> Returns(shortOutputString(e, <<" - ">>))
      [] OTHER -> fullOutputString(h, g, e, <<"\n">>, <<"\t">>, order)

ToString(h, g, e, format, order) ==
    CASE format = CustomOutput -> ToCustomString(g, e)
      [] format = DetailedOutput ->
            Returns(detailedOutputString(h, e, <<"\n">>, <<"\t">>, order))
      [] format = FullOutputFormatted ->
            fullOutputString(h, g, e, <<"\n">>, <<"\t">>, order)
      [] format = FullOutputInline ->
            fullOutputString(h, g, e, <<" --- ">>, <<>>, order)
      [] format = ShortDetailedOutput ->
            Returns(shortDetailedOutputString(e, <<" - ">>))
      [] OTHER -> Returns(shortOutputString(e, <<" - ">>))

Error(h, g, e, order) == ToString(h, g, e, getErrorOutputFormat(g, e), order)

(***************************************************************************)
(* The client program: two holder variables, e and d.  A holder variable   *)
(* is assigned the result of a constructor or of a mutator call on a held  *)
(* value; a panic ends the program.                                        *)
(***************************************************************************)
Slots == {"e", "d"}

\* the assignments dst = src.M(...) of the program
Assignments == {<<"e", "e">>, <<"e", "d">>, <<"d", "d">>}

Codes == {EmptyString, <<"E1">>}

Messages == {<<"boom">>}

Keys == {<<"k1">>, <<"k2">>}

Values == {<<"v1">>, <<"v2">>}

TagNames == {<<"http">>}

Sources == {<<"svc.go">>}

Functions == {<<"handle">>}

LineNumbers == {<<"42">>}

CustomFuncs == {"cofA"}

\* stack offsets and call-chain depths: no frame, some frames, more than fit
StackArgs ==
    {[offset |-> 1, depth |-> 0], [offset |-> 1, depth |-> 3],
     [offset |-> 0, depth |-> MaxChain]}

Formats == NotSpecified..ShortOutput

\* the formats a caller can pass: the named ones and one that is none of them
FormatArgs == Formats \cup {ShortOutput + 1}

MapLiterals == {[k \in {<<"k1">>} |-> <<"v0">>]}

TagLiterals == {<< <<"db">>, <<"http">> >>}

Globals == [format |-> errorOutputFormat, cof |-> customOutputFunction]

\* the values a caller can pass as an error: nil, an error of another
\* package, or the rich error a holder variable holds (boxed by value)
ErrorArgs ==
    {NilError, PlainError(<<"EOF">>)}
      \cup {Boxed(errs[k]) : k \in {s \in held : errs[s].InnerErrors.len = 0}}

ErrorListArgs == {<<>>, <<PlainError(<<"EOF">>), PlainError(<<"EOF">>)>>,
                  <<NilError, PlainError(<<"EOF">>)>>}

\* the maps a caller can pass: nil, the map of a held error, a map literal
MapArgs ==
    {[h |-> heap, m |-> NilMap]}
      \cup {[h |-> heap, m |-> errs[k].MetaData] : k \in held}
      \cup {[h |-> [heap EXCEPT !.maps = Append(@, lit)],
             m |-> Len(heap.maps) + 1] : lit \in MapLiterals}

\* the tag slices a caller can pass: nil, the tags of a held error, a literal
TagArgs ==
    {[h |-> heap, s |-> NilSlice]}
      \cup {[h |-> heap, s |-> errs[k].Tags] : k \in held}
      \cup {LET r == SliceLiteral(heap.tags, lit)
            IN  [h |-> [heap EXCEPT !.tags = r.arrays], s |-> r.slice] :
            lit \in TagLiterals}

\* the orders in which a range over the map of e can run
Orders(h, e) ==
    LET ks == DOMAIN GetMetaData(h, e)
    IN  {o \in [1..Cardinality(ks) -> ks] :
            \A a, b \in 1..Cardinality(ks) : o[a] = o[b] => a = b}

\* history of a value: the holder variables whose values it was made from,
\* the metadata keys written on the way, whether its format was ever set,
\* the number of frames runtime.Callers gave to its WithStack calls, and the
\* code and time its constructor was given
NoHistory ==
    [anc |-> {}, wrote |-> {}, format |-> FALSE, captured |-> 0,
     born |-> [code |-> EmptyString, at |-> 0]]

Born(code, at, captured) ==
    [NoHistory EXCEPT !.born = [code |-> code, at |-> at], !.captured = captured]

NoChange == [wrote |-> {}, format |-> FALSE, captured |-> 0]

\* the number of frames a WithStack(stackOffset) call is given
Captured(stackOffset, depth) ==
    Len(Callers(baseStackOffset + stackOffset, MaxCallers, depth))

\* the generator has not run
GenIdle == [pc |-> "idle"]

\* the history after dst is assigned a value made from src's
Derived(src, dst, delta) ==
    [s \in Slots |->
        IF s = dst
        THEN [anc      |-> (hist[src].anc \cup {src}) \ {dst},
              wrote    |-> hist[src].wrote \cup delta.wrote,
              format   |-> hist[src].format \/ delta.format,
              captured |-> hist[src].captured + delta.captured,
              born     |-> hist[src].born]
        ELSE [hist[s] EXCEPT !.anc = @ \ {dst}]]

Running == steps < MaxSteps /\ ~out.panic

Init ==
    /\ errs = [s \in Slots |-> ZeroRichError]
    /\ held = {}
    /\ hist = [s \in Slots |-> NoHistory]
    /\ pkgFormatSet = FALSE
    /\ heap = EmptyHeap
    /\ errorOutputFormat = FullOutputFormatted
    /\ customOutputFunction = NoFunc
    /\ clock = 1
    /\ last = [op |-> "none"]
    /\ out = Returns(<<>>)
    /\ steps = 0
    /\ gen = GenIdle

\* dst = <constructor>(...)
Construct(dst, r, born, call) ==
    /\ Running
    /\ errs' = [errs EXCEPT ![dst] = r.e]
    /\ heap' = r.h
    /\ held' = held \cup {dst}
    /\ hist' = [s \in Slots |->
                  IF s = dst THEN born ELSE [hist[s] EXCEPT !.anc = @ \ {dst}]]
    /\ clock' = clock + 1
    /\ last' = call
    /\ steps' = steps + 1
    /\ UNCHANGED <<pkgFormatSet, errorOutputFormat, customOutputFunction, out, gen>>

\* dst = src.<mutator>(...)
Mutate(src, dst, r, delta, call) ==
    /\ Running
    /\ src \in held
    /\ errs' = [errs EXCEPT ![dst] = r.e]
    /\ heap' = r.h
    /\ held' = held \cup {dst}
    /\ hist' = Derived(src, dst, delta)
    /\ last' = call
    /\ steps' = steps + 1
    /\ UNCHANGED <<pkgFormatSet, errorOutputFormat, customOutputFunction, clock,
                   out, gen>>

\* a render call on src
Render(src, res, call) ==
    /\ Running
    /\ src \in held
    /\ out' = res
    /\ last' = call
    /\ steps' = steps + 1
    /\ UNCHANGED <<errs, held, hist, pkgFormatSet, heap, errorOutputFormat,
                   customOutputFunction, clock, gen>>

CallNewRichError(dst, errCode, message) ==
    Construct(dst, NewRichError(heap, errCode, message, clock),
              Born(errCode, clock, 0),
              [op |-> "NewRichError", dst |-> dst, code |-> errCode,
               message |-> message, now |-> clock])

CallNewRichErrorWithStack(dst, errCode, message, stackOffset, depth) ==
    Construct(dst,
              NewRichErrorWithStack(heap, errCode, message, clock, stackOffset, depth),
              Born(errCode, clock, Captured(stackOffset, depth + 1)),
              [op |-> "NewRichErrorWithStack", dst |-> dst, code |-> errCode,
               message |-> message, now |-> clock, offset |-> stackOffset,
               depth |-> depth])

CallWithStack(src, dst, stackOffset, depth) ==
    Mutate(src, dst, WithStack(heap, errs[src], stackOffset, depth),
           [NoChange EXCEPT !.captured = Captured(stackOffset, depth)],
           [op |-> "WithStack", src |-> src, dst |-> dst, offset |-> stackOffset,
            depth |-> depth])

CallWithMetaData(src, dst, arg) ==
    Mutate(src, dst, WithMetaData(arg.h, errs[src], arg.m),
           [NoChange EXCEPT !.wrote =
               IF arg.m = NilMap THEN {} ELSE DOMAIN arg.h.maps[arg.m]],
           [op |-> "WithMetaData", src |-> src, dst |-> dst, map |-> arg.m])

CallWithErrors(src, dst, errList) ==
    Mutate(src, dst, WithErrors(heap, errs[src], errList), NoChange,
           [op |-> "WithErrors", src |-> src, dst |-> dst, errs |-> errList])

CallWithTags(src, dst, arg) ==
    Mutate(src, dst, WithTags(arg.h, errs[src], arg.s), NoChange,
           [op |-> "WithTags", src |-> src, dst |-> dst, tags |-> arg.s])

CallAddSource(src, dst, source) ==
    Mutate(src, dst, AddSource(heap, errs[src], source), NoChange,
           [op |-> "AddSource", src |-> src, dst |-> dst, source |-> source])

CallAddFunction(src, dst, function) ==
    Mutate(src, dst, AddFunction(heap, errs[src], function), NoChange,
           [op |-> "AddFunction", src |-> src, dst |-> dst, function |-> function])

CallAddLineNumber(src, dst, lineNumber) ==
    Mutate(src, dst, AddLineNumber(heap, errs[src], lineNumber), NoChange,
           [op |-> "AddLineNumber", src |-> src, dst |-> dst, line |-> lineNumber])

CallAddMetaData(src, dst, key, value) ==
    Mutate(src, dst, AddMetaData(heap, errs[src], key, value),
           [NoChange EXCEPT !.wrote = {key}],
           [op |-> "AddMetaData", src |-> src, dst |-> dst, key |-> key,
            value |-> value])

CallAddError(src, dst, err) ==
    Mutate(src, dst, AddError(heap, errs[src], err), NoChange,
           [op |-> "AddError", src |-> src, dst |-> dst, err |-> err])

CallAddTag(src, dst, tag) ==
    Mutate(src, dst, AddTag(heap, errs[src], tag), NoChange,
           [op |-> "AddTag", src |-> src, dst |-> dst, tag |-> tag])

CallSetCustomOutputFunction(src, dst, cof) ==
    Mutate(src, dst, SetCustomOutputFunction(heap, errs[src], cof), NoChange,
           [op |-> "SetCustomOutputFunction", src |-> src, dst |-> dst, cof |-> cof])

CallSetOutputFormat(src, dst, format) ==
    Mutate(src, dst, SetOutputFormat(heap, errs[src], format),
           [NoChange EXCEPT !.format = TRUE],
           [op |-> "SetOutputFormat", src |-> src, dst |-> dst, format |-> format])

SetGlobalCustomOutputFunction(cof) ==
    /\ Running
    /\ customOutputFunction' = cof
    /\ last' = [op |-> "SetGlobalCustomOutputFunction", cof |-> cof]
    /\ steps' = steps + 1
    /\ UNCHANGED <<errs, held, hist, pkgFormatSet, heap, errorOutputFormat, clock,
                   out, gen>>

SetGlobalErrorOutputFormat(format) ==
    /\ Running
    /\ errorOutputFormat' = format
    /\ pkgFormatSet' = TRUE
    /\ last' = [op |-> "SetGlobalErrorOutputFormat", format |-> format]
    /\ steps' = steps + 1
    /\ UNCHANGED <<errs, held, hist, heap, customOutputFunction, clock, out, gen>>

CallToString(src, format, order) ==
    Render(src, ToString(heap, Globals, errs[src], format, order),
           [op |-> "ToString", src |-> src, format |-> format, order |-> order])

CallToCustomString(src) ==
    Render(src, ToCustomString(Globals, errs[src]),
           [op |-> "ToCustomString", src |-> src])

CallError(src, order) ==
    Render(src, Error(heap, Globals, errs[src], order),
           [op |-> "Error", src |-> src, order |-> order])

(***************************************************************************)
(* Spec: the constructors and every mutator, from a program that holds no  *)
(* error yet.                                                              *)
(***************************************************************************)
Next ==
    \/ \E c \in Codes, m \in Messages : CallNewRichError("e", c, m)
    \/ \E c \in Codes, m \in Messages, a \in StackArgs :
          CallNewRichErrorWithStack("e", c, m, a.offset, a.depth)
    \/ \E sd \in Assignments, a \in StackArgs :
          CallWithStack(sd[1], sd[2], a.offset, a.depth)
    \/ \E sd \in Assignments, a \in MapArgs : CallWithMetaData(sd[1], sd[2], a)
    \/ \E sd \in Assignments, l \in ErrorListArgs : CallWithErrors(sd[1], sd[2], l)
    \/ \E sd \in Assignments, a \in TagArgs : CallWithTags(sd[1], sd[2], a)
    \/ \E sd \in Assignments, x \in Sources : CallAddSource(sd[1], sd[2], x)
    \/ \E sd \in Assignments, x \in Functions : CallAddFunction(sd[1], sd[2], x)
    \/ \E sd \in Assignments, x \in LineNumbers : CallAddLineNumber(sd[1], sd[2], x)
    \/ \E sd \in Assignments, k \in Keys, v \in Values :
          CallAddMetaData(sd[1], sd[2], k, v)
    \/ \E sd \in Assignments, x \in ErrorArgs : CallAddError(sd[1], sd[2], x)
    \/ \E sd \in Assignments, t \in TagNames : CallAddTag(sd[1], sd[2], t)
    \/ \E sd \in Assignments, f \in CustomFuncs \cup {NoFunc} :
          CallSetCustomOutputFunction(sd[1], sd[2], f)
    \/ \E sd \in Assignments, f \in {CustomOutput, ShortOutput} :
          CallSetOutputFormat(sd[1], sd[2], f)

Spec == Init /\ [][Next]_vars

(***************************************************************************)
(* SpecRender: the renders.  A render reads the error, the heap and the    *)
(* two package variables and changes none of them, so the program starts   *)
(* with e holding an error built by the constructors and mutators above,   *)
(* and goes on with the setters of formats and custom functions and with   *)
(* the render calls.                                                       *)
(***************************************************************************)
\* an inner rich error whose own format is CustomOutput, with no function set
InnerRich ==
    SetOutputFormat(EmptyHeap,
                    NewRichError(EmptyHeap, <<"E2">>, <<"inner">>, 1).e,
                    CustomOutput).e

InnerLists ==
    {<<>>, <<PlainError(<<"EOF">>), Boxed(InnerRich)>>,
     <<NilError, PlainError(<<"EOF">>)>>}

MetaLists == {<<>>, <<<<"k1">>, <<"k2">>>>}

\* e = NewRichError(code, message) [.WithStack(1)] .WithErrors(inner)
\*       [.AddMetaData(k, "v1")]* for the keys of meta
RECURSIVE AddAll(_, _)
AddAll(r, keys) ==
    IF keys = <<>> THEN r
    ELSE AddAll(AddMetaData(r.h, r.e, Head(keys), <<"v1">>), Tail(keys))

Built(code, message, stack, inner, meta) ==
    LET r0 == NewRichError(EmptyHeap, code, message, 1)
        r1 == IF stack THEN WithStack(r0.h, r0.e, 1, 3) ELSE r0
        r2 == WithErrors(r1.h, r1.e, inner)
    IN  AddAll(r2, meta)

InitRender ==
    \E c \in Codes, stack \in BOOLEAN, inner \in InnerLists, meta \in MetaLists :
        LET r == Built(c, IF c = EmptyString THEN EmptyString ELSE <<"boom">>,
                       stack, inner, meta)
        IN  /\ errs = [s \in Slots |-> IF s = "e" THEN r.e ELSE ZeroRichError]
            /\ held = {"e"}
            /\ hist = [s \in Slots |->
                         IF s = "e"
                         THEN [Born(r.e.ErrCode, 1, IF stack THEN Captured(1, 3) ELSE 0)
                                 EXCEPT !.wrote = {meta[k] : k \in 1..Len(meta)}]
                         ELSE NoHistory]
            /\ pkgFormatSet = FALSE
            /\ heap = r.h
            /\ errorOutputFormat = FullOutputFormatted
            /\ customOutputFunction = NoFunc
            /\ clock = 2
            /\ last = [op |-> "none"]
            /\ out = Returns(<<>>)
            /\ steps = 0
            /\ gen = GenIdle

NextRender ==
    \/ \E f \in CustomFuncs \cup {NoFunc} : CallSetCustomOutputFunction("e", "e", f)
    \/ \E f \in FormatArgs : CallSetOutputFormat("e", "e", f)
    \/ \E f \in CustomFuncs \cup {NoFunc} : SetGlobalCustomOutputFunction(f)
    \/ \E f \in FormatArgs : SetGlobalErrorOutputFormat(f)
    \/ \E f \in FormatArgs :
          \E o \in Orders(heap, errs["e"]) : CallToString("e", f, o)
    \/ CallToCustomString("e")
    \/ \E o \in Orders(heap, errs["e"]) : CallError("e", o)

SpecRender == InitRender /\ [][NextRender]_vars

(***************************************************************************)
(* SpecGlobal: a program that makes errors, sets the package-wide format   *)
(* and custom function, sets them on its errors, and calls Error(), in any *)
(* order.                                                                  *)
(***************************************************************************)
NextGlobal ==
    \/ \E s \in Slots, c \in Codes, m \in Messages : CallNewRichError(s, c, m)
    \/ \E f \in FormatArgs : SetGlobalErrorOutputFormat(f)
    \/ \E f \in CustomFuncs \cup {NoFunc} : SetGlobalCustomOutputFunction(f)
    \/ \E s \in Slots, f \in FormatArgs : CallSetOutputFormat(s, s, f)
    \/ \E s \in Slots, f \in CustomFuncs \cup {NoFunc} :
          CallSetCustomOutputFunction(s, s, f)
    \/ \E s \in Slots : \E o \in Orders(heap, errs[s]) : CallError(s, o)

SpecGlobal == Init /\ [][NextGlobal]_vars

(***************************************************************************)
(* The tag filter of the code generator.  Tags are sequences of            *)
(* characters.                                                             *)
(***************************************************************************)
MaxCatalog == 2

\* strings.ToLower over the characters in use
LowerChar(c) == CASE c = "A" -> "a" [] c = "B" -> "b" [] OTHER -> c

ToLower(s) == [i \in DOMAIN s |-> LowerChar(s[i])]

IsSpace(c) == c \in {" ", "\t"}

\* strings.TrimSpace: leading and trailing white space is dropped
RECURSIVE TrimLeft(_)
TrimLeft(s) ==
    IF s # <<>> /\ IsSpace(Head(s)) THEN TrimLeft(Tail(s)) ELSE s

RECURSIVE TrimRight(_)
TrimRight(s) ==
    IF s # <<>> /\ IsSpace(s[Len(s)])
    THEN TrimRight(SubSeq(s, 1, Len(s) - 1)) ELSE s

TrimSpace(s) == TrimRight(TrimLeft(s))

\* models.ErrorData
ErrorData(code, tags) ==
    [Code |-> code, Tags |-> tags, Message |-> <<"boom">>,
     IncludeMap |-> FALSE, MetaData |-> <<>>]

\* for _, cliTag := range tags: does a filter tag equal errTag
RECURSIVE MatchCliTags(_, _)
MatchCliTags(errTag, tags) ==
    IF tags = <<>> THEN FALSE
    ELSE IF errTag = TrimSpace(ToLower(Head(tags))) THEN TRUE
    ELSE MatchCliTags(errTag, Tail(tags))

\* for _, errTag := range errDefinition.Tags
RECURSIVE MatchErrTags(_, _)
MatchErrTags(errTags, tags) ==
    IF errTags = <<>>
    THEN [hasMatchingTag |-> FALSE, firstMatchedTag |-> EmptyString]
    ELSE LET errTag == TrimSpace(ToLower(Head(errTags)))
         IN  IF MatchCliTags(errTag, tags)
             THEN [hasMatchingTag |-> TRUE, firstMatchedTag |-> errTag]
             ELSE MatchErrTags(Tail(errTags), tags)

\* for _, errDefinition := range data
RECURSIVE FilterLoop(_, _, _, _)
FilterLoop(data, tags, isInclude, acc) ==
    IF data = <<>> THEN acc
    ELSE LET errDefinition == Head(data)
             m == MatchErrTags(errDefinition.Tags, tags)
             next ==
               IF isInclude /\ m.hasMatchingTag
               THEN [matchingErrors |-> Append(acc.matchingErrors, errDefinition),
                     stdout |-> Append(acc.stdout,
                        <<"Added for generation: Error '">> \o errDefinition.Code
                          \o <<"' has matching tag '">> \o m.firstMatchedTag
                          \o <<"'\n">>)]
               ELSE IF ~isInclude /\ ~m.hasMatchingTag
               THEN [matchingErrors |-> Append(acc.matchingErrors, errDefinition),
                     stdout |-> Append(acc.stdout,
                        <<"Added for generation: Error '">> \o errDefinition.Code
                          \o <<"' does not have tag '">> \o m.firstMatchedTag
                          \o <<"'\n">>)]
               ELSE acc
         IN  FilterLoop(Tail(data), tags, isInclude, next)

\* mutant: the tags are compared as written
RECURSIVE FilterExact(_, _, _)
FilterExact(data, tags, isInclude) ==
    IF data = <<>> THEN [matchingErrors |-> <<>>, stdout |-> <<>>]
    ELSE LET has  == \E i \in DOMAIN Head(data).Tags, j \in DOMAIN tags :
                        Head(data).Tags[i] = tags[j]
             rest == FilterExact(Tail(data), tags, isInclude)
         IN  IF has = isInclude
             THEN [rest EXCEPT !.matchingErrors = <<Head(data)>> \o @]
             ELSE rest

getMatchingErrorsByTag(data, tags, isInclude) ==
    LET r == FilterLoop(data, tags, isInclude,
                        [matchingErrors |-> <<>>, stdout |-> <<>>])
    IN  [r EXCEPT !.stdout =
            Append(@, <<"\n">> \o Itoa(Len(r.matchingErrors))
                        \o <<" errors matched the tags provided.\n\n">>)]

\* tag lists of catalog entries, and the tag lists of the command line
EntryTagLists ==
    {<<>>, <<<<"A">>>>, <<<<" ", "a", "\t">>>>, <<<<"b">>>>,
     <<<<"b">>, <<"a">>>>, <<<<"a", "b">>>>, <<<<" ">>>>}

CliTagLists ==
    {<<<<"a">>>>, <<<<"A", " ">>>>, <<<<"B">>, <<"a">>>>, <<<<"a", "b">>>>,
     <<<<"c">>, <<>>>>}

\* catalogs of at most MaxCatalog entries E1, E2, ...
Catalogs ==
    UNION {{[i \in 1..n |-> ErrorData(<<"E">> \o Itoa(i), f[i])] :
              f \in [1..n -> EntryTagLists]} : n \in 0..MaxCatalog}

InitFilter ==
    /\ errs = [s \in Slots |-> ZeroRichError]
    /\ held = {}
    /\ hist = [s \in Slots |-> NoHistory]
    /\ pkgFormatSet = FALSE
    /\ heap = EmptyHeap
    /\ errorOutputFormat = FullOutputFormatted
    /\ customOutputFunction = NoFunc
    /\ clock = 1
    /\ last = [op |-> "none"]
    /\ out = Returns(<<>>)
    /\ steps = 0
    /\ \E data \in Catalogs, tags \in CliTagLists :
          gen = [pc |-> "filter", data |-> data, tags |-> tags, done |-> {},
                 include |-> <<>>, exclude |-> <<>>, stdout |-> <<>>]

\* getMatchingErrorsByTag(data, tags, true)
FilterInclude ==
    /\ gen.pc = "filter"
    /\ "include" \notin gen.done
    /\ LET r == getMatchingErrorsByTag(gen.data, gen.tags, TRUE)
       IN  gen' = [gen EXCEPT !.done = @ \cup {"include"},
                              !.include = r.matchingErrors,
                              !.stdout = @ \o r.stdout]
    /\ UNCHANGED <<errs, held, hist, pkgFormatSet, heap, errorOutputFormat,
                   customOutputFunction, clock, last, out, steps>>

\* getMatchingErrorsByTag(data, tags, false)
FilterExclude ==
    /\ gen.pc = "filter"
    /\ "exclude" \notin gen.done
    /\ LET r == getMatchingErrorsByTag(gen.data, gen.tags, FALSE)
       IN  gen' = [gen EXCEPT !.done = @ \cup {"exclude"},
                              !.exclude = r.matchingErrors,
                              !.stdout = @ \o r.stdout]
    /\ UNCHANGED <<errs, held, hist, pkgFormatSet, heap, errorOutputFormat,
                   customOutputFunction, clock, last, out, steps>>

NextFilter == FilterInclude \/ FilterExclude

SpecFilter == InitFilter /\ [][NextFilter]_vars

(***************************************************************************)
(* The generated code.  Executing the template on one entry gives a unit:  *)
(* a constant, a constructor and a predicate.  The constructor is kept as  *)
(* its parameter list and the chain of calls of its body, and is run by    *)
(* NewGeneratedError.                                                      *)
(***************************************************************************)
DataItem(name, dataType) ==
    [Name |-> name, DataType |-> dataType, ImportPath |-> EmptyString]

\* one call of the chain of the constructor's body
BuilderCall(fn, key, arg, lit) == [fn |-> fn, key |-> key, arg |-> arg, lit |-> lit]

\* mutant: every metadata item is wired to AddMetaData
ErrorConstructorTemplateOnlyMetaData(genData) ==
    [package    |-> genData.ErrorPkg,
     imports    |-> {},
     constName  |-> <<"ErrCode">> \o genData.Code,
     constValue |-> genData.Code,
     ctorName   |-> <<"New">> \o genData.Code \o <<"Error">>,
     params     |-> [i \in 1..Len(genData.MetaData) |-> genData.MetaData[i].Name]
                      \o (IF genData.IncludeMap THEN << <<"fields">> >> ELSE <<>>)
                      \o << <<"includeStack">> >>,
     msg        |-> genData.Message,
     calls      |-> (IF genData.IncludeMap
                     THEN <<BuilderCall("WithMetaData", <<>>, <<"fields">>, <<>>)>>
                     ELSE <<>>)
                      \o [i \in 1..Len(genData.MetaData) |->
                            BuilderCall("AddMetaData", genData.MetaData[i].Name,
                                        genData.MetaData[i].Name, <<>>)],
     predName   |-> <<"Is">> \o genData.Code \o <<"Error">>,
     predConst  |-> <<"ErrCode">> \o genData.Code]

ErrorConstructorTemplate(genData) ==
    [package    |-> genData.ErrorPkg,
     \* range getDataItemImportMap .MetaData: the import paths that are set
     imports    |-> {genData.MetaData[i].ImportPath : i \in DOMAIN genData.MetaData}
                      \ {EmptyString},
     constName  |-> <<"ErrCode">> \o genData.Code,
     constValue |-> genData.Code,
     ctorName   |-> <<"New">> \o genData.Code \o <<"Error">>,
     params     |-> [i \in 1..Len(genData.MetaData) |-> genData.MetaData[i].Name]
                      \o (IF genData.IncludeMap THEN << <<"fields">> >> ELSE <<>>)
                      \o << <<"includeStack">> >>,
     msg        |-> genData.Message,
     calls      |-> (IF genData.IncludeMap
                     THEN <<BuilderCall("WithMetaData", <<>>, <<"fields">>, <<>>)>>
                     ELSE <<>>)
                      \o [i \in 1..Len(genData.MetaData) |->
                            IF genData.MetaData[i].DataType = <<"error">>
                            THEN BuilderCall("AddError", <<>>,
                                             genData.MetaData[i].Name, <<>>)
                            ELSE BuilderCall("AddMetaData", genData.MetaData[i].Name,
                                             genData.MetaData[i].Name, <<>>)]
                      \o (IF genData.Tags # <<>>
                          THEN <<BuilderCall("WithTags", <<>>, <<>>, genData.Tags)>>
                          ELSE <<>>),
     predName   |-> <<"Is">> \o genData.Code \o <<"Error">>,
     predConst  |-> <<"ErrCode">> \o genData.Code]

\* err := errors.NewRichError(...).WithMetaData(fields).AddError(x)...: the
\* chain of calls, args giving the value of each parameter
RECURSIVE RunCalls(_, _, _)
RunCalls(r, calls, args) ==
    IF calls = <<>> THEN r
    ELSE LET c == Head(calls)
             next ==
               CASE c.fn = "WithMetaData" -> WithMetaData(r.h, r.e, args[c.arg])
                 [] c.fn = "AddError" -> AddError(r.h, r.e, args[c.arg])
                 [] c.fn = "AddMetaData" -> AddMetaData(r.h, r.e, c.key, args[c.arg])
                 [] c.fn = "WithTags" ->
                      LET lit == SliceLiteral(r.h.tags, c.lit)
                      IN  WithTags([r.h EXCEPT !.tags = lit.arrays], r.e, lit.slice)
         IN  RunCalls(next, Tail(calls), args)

\* New<Code>Error(args...), called through a chain of `depth` functions
\* (the constructor itself and its callers)
NewGeneratedError(h, unit, args, now, depth) ==
    LET r == RunCalls(NewRichError(h, unit.constValue, unit.msg, now),
                      unit.calls, args)
    IN  IF args[<<"includeStack">>] THEN WithStack(r.h, r.e, 1, depth) ELSE r

\* mutant: the codes are compared without regard to case
IsGeneratedErrorAnyCase(unit, e) == ToLower(GetErrorCode(e)) = ToLower(unit.constValue)

\* Is<Code>Error(err): predConst names the constant of the same unit
IsGeneratedError(unit, e) == GetErrorCode(e) = unit.constValue

\* models.GeneratorData{ErrorPkg: outputErrorPkg, ErrorData: data}
GeneratorData(errorPkg, data) ==
    [ErrorPkg |-> errorPkg, Code |-> data.Code, Tags |-> data.Tags,
     Message |-> data.Message, IncludeMap |-> data.IncludeMap,
     MetaData |-> data.MetaData]

\* codes that differ in case only, and one that does not
GenCodes == {<<"A", "b">>, <<"a", "b">>, <<"B">>}

\* entries whose constructors are called, and the map a caller passes
CtorEntries ==
    {[ErrorData(c, t) EXCEPT !.MetaData = items, !.IncludeMap = b] :
        c \in GenCodes, t \in {<<>>, << <<"a">> >>}, b \in BOOLEAN,
        items \in {<<>>, <<DataItem(<<"id">>, <<"string">>)>>,
                   <<DataItem(<<"cause">>, <<"error">>),
                     DataItem(<<"id">>, <<"string">>)>>,
                   <<DataItem(<<"id">>, <<"string">>),
                     DataItem(<<"cause">>, <<"error">>)>>}}

FieldsLiteral == [k \in {<<"id">>, <<"k1">>} |-> <<"v0">>]

\* e = New<Code>Error(...): the caller passes "v1" for a string, cause for
\* an error, nil or a map literal for fields
CallNewGeneratedError(data, useLit, cause, includeStack, depth) ==
    LET unit   == ErrorConstructorTemplate(GeneratorData(<<"errors">>, data))
        h0     == IF useLit THEN [heap EXCEPT !.maps = Append(@, FieldsLiteral)]
                  ELSE heap
        fields == IF useLit THEN Len(heap.maps) + 1 ELSE NilMap
        args   == [n \in {unit.params[i] : i \in DOMAIN unit.params} |->
                     CASE n = <<"fields">> -> fields
                       [] n = <<"includeStack">> -> includeStack
                       [] n = <<"cause">> -> cause
                       [] OTHER -> <<"v1">>]
    IN  /\ "e" \notin held
        /\ useLit => data.IncludeMap
        /\ Construct("e", NewGeneratedError(h0, unit, args, clock, depth),
                     Born(data.Code, clock,
                          IF includeStack THEN Captured(1, depth) ELSE 0),
                     [op |-> "NewGeneratedError", dst |-> "e", data |-> data,
                      args |-> args,
                      fields |-> IF useLit THEN FieldsLiteral ELSE NoKeys])

\* Is<code>Error(e)
CallIsGeneratedError(code) ==
    /\ Running
    /\ "e" \in held
    /\ last' = [op |-> "IsGeneratedError", code |-> code,
                result |-> IsGeneratedError(
                    ErrorConstructorTemplate(
                        GeneratorData(<<"errors">>, ErrorData(code, <<>>))),
                    errs["e"])]
    /\ steps' = steps + 1
    /\ UNCHANGED <<errs, held, hist, pkgFormatSet, heap, errorOutputFormat,
                   customOutputFunction, clock, out, gen>>

NextCtor ==
    \/ \E data \in CtorEntries, useLit, includeStack \in BOOLEAN,
          cause \in {NilError, PlainError(<<"EOF">>)}, depth \in {2, MaxChain} :
          CallNewGeneratedError(data, useLit, cause, includeStack, depth)
    \/ \E code \in GenCodes : CallIsGeneratedError(code)

SpecCtor == Init /\ [][NextCtor]_vars

(***************************************************************************)
(* The generator run (errorGenerator).  gen holds the flags, the catalog   *)
(* file, the file system, what was printed, and the position of the run:   *)
(* "mkdir", "load", "filter", "loop", then "done" or "panic".              *)
(***************************************************************************)
\* strings.Split(s, sep), sep one character
RECURSIVE Split(_, _)
Split(s, sep) ==
    IF \A i \in DOMAIN s : s[i] # sep THEN <<s>>
    ELSE LET k == CHOOSE i \in DOMAIN s : s[i] = sep /\ \A j \in 1..(i - 1) : s[j] # sep
         IN  <<SubSeq(s, 1, k - 1)>> \o Split(SubSeq(s, k + 1, Len(s)), sep)

\* json.Unmarshal(file, &errDataSlice) on an empty slice.  Text that is no
\* JSON, or no array, leaves the slice empty; in an array, an element that
\* is no object is left a zero entry and a field of the wrong type is left
\* zero, and decoding goes on.  err is returned, and dropped by the caller.
Unmarshal(json) ==
    IF json.kind # "array" THEN [slice |-> <<>>, err |-> TRUE]
    ELSE [slice |-> [i \in DOMAIN json.items |->
                       CASE json.items[i].kind = "entry" -> json.items[i].data
                         [] json.items[i].kind = "badcode" ->
                              [json.items[i].data EXCEPT !.Code = EmptyString]
                         [] OTHER ->
                              [ErrorData(EmptyString, <<>>) EXCEPT !.Message = EmptyString]],
          err   |-> \E i \in DOMAIN json.items : json.items[i].kind # "entry"]

\* format.Source(buffer): fails on text that is no Go source, which is the
\* case here when the code is no identifier
FormatSource(unit) ==
    [ok   |-> \A i \in DOMAIN unit.constValue : unit.constValue[i] # "-",
     code |-> [form |-> "gofmt", unit |-> unit]]

\* one thing printed to the standard output
Printed(kind, index, body) == [kind |-> kind, index |-> index, body |-> body]

\* mutant: the exclude tags are looked at first
FilterByFlagsExcludeFirst(data, includeTagsFlag, excludeTagsFlag) ==
    IF excludeTagsFlag # EmptyString
    THEN getMatchingErrorsByTag(data, Split(excludeTagsFlag, ","), FALSE)
    ELSE IF includeTagsFlag # EmptyString
    THEN getMatchingErrorsByTag(data, Split(includeTagsFlag, ","), TRUE)
    ELSE [matchingErrors |-> data, stdout |-> <<>>]

\* if includeTags != "" {...} else if excludeTags != "" {...}
FilterByFlags(data, includeTagsFlag, excludeTagsFlag) ==
    IF includeTagsFlag # EmptyString
    THEN LET r == getMatchingErrorsByTag(data, Split(includeTagsFlag, ","), TRUE)
         IN  [r EXCEPT !.stdout =
                 <<<<"Include tags specified. ">> \o includeTagsFlag>> \o @]
    ELSE IF excludeTagsFlag # EmptyString
    THEN LET r == getMatchingErrorsByTag(data, Split(excludeTagsFlag, ","), FALSE)
         IN  [r EXCEPT !.stdout =
                 <<<<"Exclude tags specified. ">> \o excludeTagsFlag>> \o @]
    ELSE [matchingErrors |-> data, stdout |-> <<>>]

\* path.Join(outDir, strings.ToLower(outputErrorPkg))
ErrorsDir(g) == <<g.outDir, ToLower(g.outputErrorPkg)>>

\* path.Join(errorsDir, strings.ToLower(data.Code) + ".go")
ErrConstructorFilePath(g, data) == Append(ErrorsDir(g), ToLower(data.Code) \o <<".go">>)

\* the run after the body of the loop for entry g.i: outcome is "ok" or the
\* step that failed, prints what it printed, files the files after it,
\* emitted the unit it put out (in a file or on the standard output)
\* mutant: a failure removes the files written so far
AfterEntryRollback(g, outcome, prints, files, emitted) ==
    [g EXCEPT !.pc = IF g.i = Len(g.errDataSlice) THEN "done" ELSE "loop",
              !.i = @ + 1,
              !.done = Append(@, outcome),
              !.stdout = @ \o prints,
              !.fs.files = IF outcome = "ok" THEN files ELSE <<>>,
              !.emitted = @ \o emitted]

AfterEntry(g, outcome, prints, files, emitted) ==
    [g EXCEPT !.pc = IF g.i = Len(g.errDataSlice) THEN "done" ELSE "loop",
              !.i = @ + 1,
              !.done = Append(@, outcome),
              !.stdout = @ \o prints,
              !.fs.files = files,
              !.emitted = @ \o emitted]

\* mutant: a failure ends the loop
EntryStepAborting(g, execOK, writeOK) ==
    LET data == g.errDataSlice[g.i]
        src  == FormatSource(ErrorConstructorTemplate(
                                 GeneratorData(g.outputErrorPkg, data)))
        path == ErrConstructorFilePath(g, data)
    IN  IF ~execOK \/ ~src.ok \/ (g.outDir # <<"stdout">> /\ ~writeOK)
        THEN [AfterEntry(g, "failed", <<Printed("log", g.i, <<"failed">>)>>,
                         g.fs.files, <<>>) EXCEPT !.pc = "done"]
        ELSE IF g.outDir = <<"stdout">>
        THEN AfterEntry(g, "ok",
                        <<Printed("open", g.i, data.Code),
                          Printed("unit", g.i, src.code),
                          Printed("close", g.i, <<>>)>>,
                        g.fs.files,
                        <<[index |-> g.i, path |-> <<"stdout">>, code |-> src.code]>>)
        ELSE AfterEntry(g, "ok",
                        <<Printed("log", g.i, <<"Generating code for error code: ">>)>>,
                        [f \in DOMAIN g.fs.files \cup {path} |->
                            IF f = path THEN src.code ELSE g.fs.files[f]],
                        <<[index |-> g.i, path |-> path, code |-> src.code]>>)

\* the body of for _, data := range errDataSlice, for the entry g.i; execOK
\* and writeOK say whether Execute and os.WriteFile succeed
EntryStep(g, execOK, writeOK) ==
    LET data == g.errDataSlice[g.i]
        raw  == ErrorConstructorTemplate(GeneratorData(g.outputErrorPkg, data))
        src  == FormatSource(raw)
        path == ErrConstructorFilePath(g, data)
    IN  IF ~execOK
        THEN AfterEntry(g, "execute",
                        <<Printed("log", g.i,
                                  <<"failed to execute error constructor template: ">>)>>,
                        g.fs.files, <<>>)
        ELSE IF ~src.ok
        THEN AfterEntry(g, "format",
                        <<Printed("dump", g.i, [form |-> "buffer", unit |-> raw]),
                          Printed("log", g.i,
                                  <<"Failed to run format.Source on error code template: ">>)>>,
                        g.fs.files, <<>>)
        ELSE IF g.outDir = <<"stdout">>
        THEN AfterEntry(g, "ok",
                        <<Printed("open", g.i, data.Code),
                          Printed("unit", g.i, src.code),
                          Printed("close", g.i, <<>>)>>,
                        g.fs.files,
                        <<[index |-> g.i, path |-> <<"stdout">>, code |-> src.code]>>)
        ELSE IF ~writeOK
        THEN AfterEntry(g, "write",
                        <<Printed("log", g.i, <<"Generating code for error code: ">>),
                          Printed("log", g.i, <<"Failed to write file ">>)>>,
                        g.fs.files, <<>>)
        ELSE AfterEntry(g, "ok",
                        <<Printed("log", g.i, <<"Generating code for error code: ">>)>>,
                        [f \in DOMAIN g.fs.files \cup {path} |->
                            IF f = path THEN src.code ELSE g.fs.files[f]],
                        <<[index |-> g.i, path |-> path, code |-> src.code]>>)

\* catalog files: unreadable, no JSON, no array, and arrays of entries
GenFiles ==
    LET Entry(c, t) == [kind |-> "entry", data |-> ErrorData(c, t)]
        Array(items) == [readable |-> TRUE, json |-> [kind |-> "array", items |-> items]]
    IN  {[readable |-> FALSE, json |-> [kind |-> "syntax"]],
         [readable |-> TRUE, json |-> [kind |-> "syntax"]],
         [readable |-> TRUE, json |-> [kind |-> "object"]],
         Array(<<>>),
         Array(<<Entry(<<"A", "b">>, << <<"a">> >>), Entry(<<"a", "b">>, << <<"b">> >>)>>),
         Array(<<Entry(<<"A", "b">>, << <<"A">> >>), Entry(<<"B">>, <<>>)>>),
         Array(<<Entry(<<"A", "-">>, << <<"a">> >>), Entry(<<"B">>, << <<"a">> >>)>>),
         Array(<<[kind |-> "badcode", data |-> ErrorData(<<"A", "b">>, << <<"a">> >>)],
                 [kind |-> "scalar"], Entry(<<"B">>, << <<"a">> >>)>>)}

InitGen ==
    /\ errs = [s \in Slots |-> ZeroRichError]
    /\ held = {}
    /\ hist = [s \in Slots |-> NoHistory]
    /\ pkgFormatSet = FALSE
    /\ heap = EmptyHeap
    /\ errorOutputFormat = FullOutputFormatted
    /\ customOutputFunction = NoFunc
    /\ clock = 1
    /\ last = [op |-> "none"]
    /\ out = Returns(<<>>)
    /\ steps = 0
    /\ \E file \in GenFiles, outDir \in {<<"stdout">>, <<"out">>},
          dirExists \in BOOLEAN,
          inc \in {EmptyString, <<"a">>, <<"B", ",", " ", "a">>},
          exc \in {EmptyString, <<"a">>} :
          gen = [pc |-> "mkdir", errorsDefinitionFile |-> file, outDir |-> outDir,
                 outputErrorPkg |-> <<"A">>, includeTags |-> inc,
                 excludeTags |-> exc,
                 fs |-> [dirs |-> IF dirExists THEN {<<outDir, <<"a">>>>} ELSE {},
                         files |-> <<>>],
                 stdout |-> <<>>, catalog |-> <<>>, errDataSlice |-> <<>>,
                 i |-> 1, done |-> <<>>, emitted |-> <<>>]

GenUnchanged ==
    UNCHANGED <<errs, held, hist, pkgFormatSet, heap, errorOutputFormat,
                customOutputFunction, clock, last, out, steps>>

\* errorsDir is made when it is not there; a failure of MkdirAll panics
GenMkdir(mkdirOK) ==
    /\ gen.pc = "mkdir"
    /\ gen' = IF ErrorsDir(gen) \in gen.fs.dirs THEN [gen EXCEPT !.pc = "load"]
              ELSE IF mkdirOK
              THEN [gen EXCEPT !.pc = "load",
                               !.fs.dirs = @ \cup {<<gen.outDir>>, ErrorsDir(gen)}]
              ELSE [gen EXCEPT !.pc = "panic"]
    /\ GenUnchanged

\* os.ReadFile panics on an unreadable file; the error of json.Unmarshal is
\* dropped
GenLoad ==
    /\ gen.pc = "load"
    /\ gen' = IF ~gen.errorsDefinitionFile.readable THEN [gen EXCEPT !.pc = "panic"]
              ELSE LET r == Unmarshal(gen.errorsDefinitionFile.json)
                   IN  [gen EXCEPT !.pc = "filter", !.catalog = r.slice,
                                   !.errDataSlice = r.slice]
    /\ GenUnchanged

GenFilter ==
    /\ gen.pc = "filter"
    /\ LET r == FilterByFlags(gen.errDataSlice, gen.includeTags, gen.excludeTags)
       IN  gen' = [gen EXCEPT
                     !.pc = IF r.matchingErrors = <<>> THEN "done" ELSE "loop",
                     !.errDataSlice = r.matchingErrors,
                     !.stdout = @ \o [k \in DOMAIN r.stdout |->
                                        Printed("log", 0, r.stdout[k])]
                                  \o <<Printed("log", 0,
                                        <<"generating ">> \o Itoa(Len(r.matchingErrors))
                                          \o <<" errors.\n\n">>)>>]
    /\ GenUnchanged

GenEntry(execOK, writeOK) ==
    /\ gen.pc = "loop"
    /\ gen' = EntryStep(gen, execOK, writeOK)
    /\ GenUnchanged

NextGen ==
    \/ \E mkdirOK \in BOOLEAN : GenMkdir(mkdirOK)
    \/ GenLoad
    \/ GenFilter
    \/ \E execOK, writeOK \in BOOLEAN : GenEntry(execOK, writeOK)

SpecGen == InitGen /\ [][NextGen]_vars

\* the run is one sequential program: it goes on until it ends
SpecGenFair == SpecGen /\ WF_vars(NextGen)

(***************************************************************************)
(* What a holder sees of a value through its accessors.                    *)
(***************************************************************************)
View(h, e) ==
    [code |-> GetErrorCode(e), message |-> GetErrorMessage(e),
     occurredAt |-> e.OccurredAt, source |-> GetSource(e),
     function |-> GetFunction(e), line |-> GetLineNumber(e),
     stack |-> GetStack(h, e), hasStack |-> HasStack(e), tags |-> GetTags(h, e),
     errors |-> GetErrors(h, e), metaDataIsNil |-> e.MetaData = NilMap,
     metaData |-> GetMetaData(h, e), format |-> e.outputFormat,
     cof |-> e.customOutputFunction]

MutatorOps ==
    {"WithStack", "WithMetaData", "WithErrors", "WithTags", "AddSource",
     "AddFunction", "AddLineNumber", "AddMetaData", "AddError", "AddTag",
     "SetCustomOutputFunction", "SetOutputFormat"}

\* this step is a mutator call
MutatorStep == steps' = steps + 1 /\ last'.op \in MutatorOps

(***************************************************************************)
(* C1.  Copy-on-write: a mutator call on the value of a holder variable,   *)
(* or on a value derived from it, changes nothing of what that holder sees *)
(* through the accessors (metadata, tags, inner errors, stack, source,     *)
(* function, line, format).                                                *)
(***************************************************************************)
C1_CopyOnWrite ==
    [][MutatorStep =>
         \A k \in held :
             (k \in hist[last'.src].anc \cup {last'.src} /\ k # last'.dst)
                 => View(heap', errs'[k]) = View(heap, errs[k])]_vars

(***************************************************************************)
(* C2.  The code and occurredAt of a value are the ones its constructor    *)
(* was given, after any sequence of mutator calls.                         *)
(***************************************************************************)
C2_CodeAndTimeFixed ==
    \A s \in held :
        /\ GetErrorCode(errs[s]) = hist[s].born.code
        /\ errs[s].OccurredAt = hist[s].born.at

C2_Witness ==
    /\ steps = MaxSteps
    /\ last.op \in MutatorOps
    /\ last.dst = "d"
    /\ hist["d"].anc = {"e"}
    /\ GetErrorCode(errs["d"]) = <<"E1">>
    /\ errs["d"].MetaData # NilMap
    /\ HasStack(errs["d"])

(***************************************************************************)
(* C3.  GetMetaDataItem(k) on the result of AddMetaData(k, v) gives        *)
(* (v, true); on a value on which k was never written, also one with no    *)
(* metadata map, it gives (nil, false).                                    *)
(***************************************************************************)
C3_MetaDataReadBack ==
    /\ last.op = "AddMetaData"
          => GetMetaDataItem(heap, errs[last.dst], last.key) = <<last.value, TRUE>>
    /\ \A s \in held, k \in Keys :
          k \notin hist[s].wrote
              => GetMetaDataItem(heap, errs[s], k) = <<NilValue, FALSE>>

(***************************************************************************)
(* C4.  AddError(nil) gives a value whose inner errors are the receiver's: *)
(* same length, same elements, no nil entry added, nil when it was nil.    *)
(***************************************************************************)
C4_AddNilErrorIsNoOp ==
    [][(steps' = steps + 1 /\ last'.op = "AddError" /\ last'.err = NilError)
          => /\ errs'[last'.dst].InnerErrors = errs[last'.src].InnerErrors
             /\ GetErrors(heap', errs'[last'.dst]) = GetErrors(heap, errs[last'.src])]_vars

C4_Witness ==
    /\ last.op = "AddError"
    /\ last.err = NilError
    /\ Len(GetErrors(heap, errs[last.dst])) = 1
    /\ errs[last.dst].InnerErrors.cap > 0

(***************************************************************************)
(* C6.  HasStack is true exactly when at least one frame was captured for  *)
(* the value: false on a fresh error and after a WithStack that got no     *)
(* frame, and changed by no other mutator.                                 *)
(***************************************************************************)
C6_HasStackIffCaptured ==
    \A s \in held : HasStack(errs[s]) <=> hist[s].captured > 0

C6_Witness ==
    /\ last.op = "WithStack"
    /\ last.depth = 0
    /\ last.dst = "d"
    /\ ~HasStack(errs["d"])
    /\ errs["d"].Source # EmptyString

(***************************************************************************)
(* Claims about rendering, under SpecRender.                               *)
(***************************************************************************)
\* the text t holds the text sub
Contains(t, sub) ==
    \E k \in 0..(Len(t) - Len(sub)) : SubSeq(t, k + 1, k + Len(sub)) = sub

\* the format Error() is to use: the instance's unless NotSpecified
EffectiveFormat(e) ==
    IF e.outputFormat # NotSpecified THEN e.outputFormat ELSE errorOutputFormat

\* the text by which an inner error is known
InnerText(err) == IF err.kind = "rich" THEN err.val.ErrCode ELSE err.text

(***************************************************************************)
(* C5.  For an error with at least one frame and one inner error, the      *)
(* DetailedOutput text has no STACK and no INNER ERRORS section, no frame  *)
(* and no inner-error text; the FullOutputFormatted text has a STACK       *)
(* section with every frame and an INNER ERRORS section with every inner   *)
(* error.                                                                  *)
(***************************************************************************)
C5_DetailedOmitsFullIncludes ==
    LET e      == errs["e"]
        frames == GetStack(heap, e)
        inner  == GetErrors(heap, e)
        real   == {i \in 1..Len(inner) : inner[i] # NilError}
        t      == out.text
    IN  (last.op = "ToString" /\ Len(frames) >= 1 /\ Len(inner) >= 1) =>
          /\ last.format = DetailedOutput =>
                /\ ~out.panic
                /\ Contains(t, <<"ERROR - ">>)
                /\ ~Holds(t, "STACK: ") /\ ~Holds(t, "L:")
                /\ ~Holds(t, "INNER ERRORS:") /\ ~Holds(t, "ERROR #")
                /\ \A k \in 1..Len(frames) : ~Contains(t, FrameString(frames[k]))
                /\ \A i \in real : ~Contains(t, InnerText(inner[i]))
          /\ last.format = FullOutputFormatted =>
                /\ ~out.panic
                /\ Count(t, "STACK: ") = 1 /\ Count(t, "L:") = Len(frames)
                /\ \A k \in 1..Len(frames) : Contains(t, FrameString(frames[k]))
                /\ Count(t, "INNER ERRORS:") = 1
                /\ Count(t, "ERROR #") = Cardinality(real)
                /\ \A i \in real :
                      Contains(t, <<"ERROR #">> \o Itoa(i) \o <<": ">>)
                        /\ Contains(t, InnerText(inner[i]))

C5_Witness ==
    /\ last.op = "ToString"
    /\ last.format = DetailedOutput
    /\ HasStack(errs["e"])
    /\ \E i \in 1..errs["e"].InnerErrors.len :
          GetErrors(heap, errs["e"])[i].kind = "rich"
    /\ Holds(out.text, "METADATA:")

(***************************************************************************)
(* C8.  Error() renders with the effective format: the instance's format   *)
(* unless it is NotSpecified, else the package-wide one; when neither has  *)
(* ever been set, Error() gives the FullOutputFormatted text.              *)
(***************************************************************************)
C8_ErrorUsesEffectiveFormat ==
    last.op = "Error" =>
        /\ out = ToString(heap, Globals, errs["e"], EffectiveFormat(errs["e"]),
                          last.order)
        /\ (~hist["e"].format /\ ~pkgFormatSet) =>
              out = fullOutputString(heap, Globals, errs["e"], <<"\n">>, <<"\t">>,
                                     last.order)

C8_Witness ==
    /\ last.op = "Error"
    /\ errs["e"].outputFormat = ShortDetailedOutput
    /\ errorOutputFormat = DetailedOutput
    /\ out = Returns(shortDetailedOutputString(errs["e"], <<" - ">>))

(***************************************************************************)
(* C9.  A render in CustomOutput format (ToString(CustomOutput),           *)
(* ToCustomString, Error() with effective format CustomOutput) gives what  *)
(* the instance's custom function gives when one is set, else what the     *)
(* package-wide one gives; with neither set it panics and gives no text.   *)
(***************************************************************************)
C9_CustomRender ==
    LET e   == errs["e"]
        cof == IF e.customOutputFunction # NoFunc
               THEN e.customOutputFunction ELSE customOutputFunction
    IN  (\/ last.op = "ToCustomString"
         \/ last.op = "ToString" /\ last.format = CustomOutput
         \/ last.op = "Error" /\ EffectiveFormat(e) = CustomOutput)
          => IF cof = NoFunc
             THEN out.panic /\ out.text = <<>>
             ELSE out = Returns(ApplyCustom(cof, e))

C9_Witness ==
    /\ last.op = "Error"
    /\ errs["e"].outputFormat = NotSpecified
    /\ errorOutputFormat = CustomOutput
    /\ out.panic

(***************************************************************************)
(* C10.  A render in any format other than CustomOutput never panics,      *)
(* whatever the package-wide settings and the fields of the error, also    *)
(* when an inner error is a rich error whose effective format is           *)
(* CustomOutput with no custom function set.                               *)
(***************************************************************************)
C10_OtherRendersNeverPanic ==
    (\/ last.op = "ToString" /\ last.format # CustomOutput
     \/ last.op = "Error" /\ EffectiveFormat(errs["e"]) # CustomOutput)
      => ~out.panic

C10_Witness ==
    /\ last.op = "ToString"
    /\ last.format \in {FullOutputFormatted, FullOutputInline}
    /\ customOutputFunction = NoFunc
    /\ \E i \in 1..errs["e"].InnerErrors.len :
          LET x == GetErrors(heap, errs["e"])[i]
          IN  /\ x.kind = "rich"
              /\ x.val.outputFormat = CustomOutput
              /\ x.val.customOutputFunction = NoFunc
    /\ Holds(out.text, "ERROR #")

(***************************************************************************)
(* Claims about the tag filter, under SpecFilter.                          *)
(***************************************************************************)
\* the tag as it is compared
Normal(t) == TrimSpace(ToLower(t))

\* the entry has a tag equal to a filter tag
Matches(e, T) ==
    \E i \in DOMAIN e.Tags, j \in DOMAIN T : Normal(e.Tags[i]) = Normal(T[j])

Range(s) == {s[i] : i \in DOMAIN s}

(***************************************************************************)
(* C7.  In include mode the filter returns exactly the entries of the      *)
(* catalog with a tag equal, after lower-casing and trimming both sides,   *)
(* to some filter tag; in exclude mode exactly the other entries.  The two *)
(* results are disjoint, together hold every entry once, and keep catalog  *)
(* order; an entry without tags is in the exclude result only.             *)
(***************************************************************************)
C7_TagFilterPartition ==
    gen.pc = "filter" =>
      LET E   == gen.data
          T   == gen.tags
          inc == SelectSeq(E, LAMBDA e : Matches(e, T))
          exc == SelectSeq(E, LAMBDA e : ~Matches(e, T))
      IN  /\ "include" \in gen.done => gen.include = inc
          /\ "exclude" \in gen.done => gen.exclude = exc
          /\ gen.done = {"include", "exclude"} =>
                /\ Range(gen.include) \cap Range(gen.exclude) = {}
                /\ Range(gen.include) \cup Range(gen.exclude) = Range(E)
                /\ Len(gen.include) + Len(gen.exclude) = Len(E)
                /\ \A i \in DOMAIN E : E[i].Tags = <<>> =>
                      /\ E[i] \in Range(gen.exclude)
                      /\ E[i] \notin Range(gen.include)

C7_Witness ==
    /\ gen.pc = "filter"
    /\ gen.done = {"include", "exclude"}
    /\ Len(gen.data) = MaxCatalog
    /\ Len(gen.include) = 1
    /\ gen.exclude # <<>> /\ gen.exclude[1].Tags = <<>>
    /\ \A i \in DOMAIN gen.include[1].Tags, j \in DOMAIN gen.tags :
          gen.include[1].Tags[i] # gen.tags[j]

(***************************************************************************)
(* Claims about the metadata, inner errors and tags of a mutator's result, *)
(* under Spec.                                                             *)
(***************************************************************************)
IsPrefix(s, t) == Len(s) <= Len(t) /\ SubSeq(t, 1, Len(s)) = s

(***************************************************************************)
(* C17.  WithMetaData(m) replaces the metadata: the result's metadata has  *)
(* exactly the keys and values of m, and a key the receiver held that is   *)
(* not in m is not readable on the result.                                 *)
(***************************************************************************)
C17_WithMetaDataReplaces ==
    [][(steps' = steps + 1 /\ last'.op = "WithMetaData") =>
          LET m == IF last'.map = NilMap THEN NoKeys ELSE heap'.maps[last'.map]
              r == errs'[last'.dst]
          IN  /\ last'.map \in 1..Len(heap.maps) => heap.maps[last'.map] = m
              /\ GetMetaData(heap', r) = m
              /\ \A k \in Keys :
                    GetMetaDataItem(heap', r, k) =
                      IF k \in DOMAIN m THEN <<m[k], TRUE>> ELSE <<NilValue, FALSE>>]_vars

C17_Witness ==
    /\ last.op = "WithMetaData"
    /\ last.src = "e" /\ last.dst = "d"
    /\ GetMetaDataItem(heap, errs["e"], <<"k2">>)[2]
    /\ GetMetaDataItem(heap, errs["d"], <<"k2">>) = <<NilValue, FALSE>>
    /\ GetMetaDataItem(heap, errs["d"], <<"k1">>) = <<(<<"v0">>), TRUE>>

(***************************************************************************)
(* C18.  innerErrors is append-only: on every mutator call the inner       *)
(* errors of the receiver are a prefix of those of the result;             *)
(* WithErrors(list) adds the elements of list in order, AddError(err) with *)
(* err present adds exactly err (length 1 on a receiver with none), and    *)
(* the other mutators add nothing.                                         *)
(***************************************************************************)
C18_InnerErrorsAppendOnly ==
    [][MutatorStep =>
          LET before == GetErrors(heap, errs[last'.src])
              after  == GetErrors(heap', errs'[last'.dst])
          IN  /\ IsPrefix(before, after)
              /\ after = CASE last'.op = "WithErrors" -> before \o last'.errs
                           [] last'.op = "AddError" /\ last'.err # NilError ->
                                Append(before, last'.err)
                           [] OTHER -> before]_vars

C18_Witness ==
    /\ last.op = "AddError"
    /\ last.err = PlainError(<<"EOF">>)
    /\ last.src = "e" /\ last.dst = "d"
    /\ errs["e"].InnerErrors = NilSlice
    /\ GetErrors(heap, errs["d"]) = <<PlainError(<<"EOF">>)>>

(***************************************************************************)
(* C19.  tags is append-only: on every mutator call, WithTags and AddTag   *)
(* included, the tags of the receiver are a prefix of the tags of the      *)
(* result.                                                                 *)
(***************************************************************************)
C19_TagsAppendOnly ==
    [][MutatorStep =>
          IsPrefix(GetTags(heap, errs[last'.src]),
                   GetTags(heap', errs'[last'.dst]))]_vars

(***************************************************************************)
(* C19, amended.  On every mutator call other than WithTags the tags of    *)
(* the receiver are a prefix of the tags of the result (AddTag adds        *)
(* exactly its tag, the others add nothing); WithTags(list) replaces them: *)
(* the tags of its result are exactly list.                                *)
(***************************************************************************)
C19_TagsAppendOnlyButWithTags ==
    [][MutatorStep =>
          LET before == GetTags(heap, errs[last'.src])
              after  == GetTags(heap', errs'[last'.dst])
          IN  after = CASE last'.op = "WithTags" -> Elems(heap'.tags, last'.tags)
                        [] last'.op = "AddTag" -> Append(before, last'.tag)
                        [] OTHER -> before]_vars

C19_Witness ==
    /\ last.op = "WithTags"
    /\ last.src = "e" /\ last.dst = "d"
    /\ GetTags(heap, errs["e"]) = << <<"http">> >>
    /\ GetTags(heap, errs["d"]) = << <<"db">>, <<"http">> >>

(***************************************************************************)
(* Claims about the sections of a rendering, under SpecRender.             *)
(***************************************************************************)
\* the labels of the sections, in the order of the specification
SectionLabels ==
    <<"TIMESTAMP: ", "SOURCE: ", "FUNCTION: ", "LINE_NUM: ", "ERRCODE: ",
      "MESSAGE: ", "STACK: ", "INNER ERRORS:", "METADATA:">>

\* the place of the first token tok of the text t
Pos(t, tok) == CHOOSE i \in 1..Len(t) : t[i] = tok /\ \A j \in 1..(i - 1) : t[j] # tok

\* the sections of t stand behind the fields that are set, in the fixed order
LabelledSections(h, e, t) ==
    /\ Holds(t, "SOURCE: ") => e.Source # EmptyString
    /\ Holds(t, "FUNCTION: ") => e.Function # EmptyString
    /\ Holds(t, "LINE_NUM: ") => e.Line # EmptyString
    /\ Holds(t, "ERRCODE: ") => e.ErrCode # EmptyString
    /\ Holds(t, "MESSAGE: ") => e.Message # EmptyString
    /\ Holds(t, "STACK: ") => Len(GetStack(h, e)) > 0
    /\ Holds(t, "INNER ERRORS:") => Len(GetErrors(h, e)) > 0
    /\ Holds(t, "METADATA:") => DOMAIN GetMetaData(h, e) # {}
    /\ \A i, j \in DOMAIN SectionLabels :
          (i < j /\ Holds(t, SectionLabels[i]) /\ Holds(t, SectionLabels[j]))
            => Pos(t, SectionLabels[i]) < Pos(t, SectionLabels[j])

(***************************************************************************)
(* C20.  In the Short, ShortDetailed, Detailed, FullFormatted and          *)
(* FullInline renderings a section is written only if its field is set:    *)
(* source:line and SOURCE only with a source, FUNCTION with a function,    *)
(* LINE_NUM with a line, ERRCODE with a code, MESSAGE with a message,      *)
(* STACK with a frame, INNER ERRORS with an inner error, METADATA with a   *)
(* key; and the sections written are in the fixed order.                   *)
(***************************************************************************)
C20_SectionsOnlyWhenSet ==
    (/\ last.op = "ToString"
     /\ last.format \in {ShortOutput, ShortDetailedOutput, DetailedOutput,
                         FullOutputFormatted, FullOutputInline})
      => /\ ~out.panic
         /\ LabelledSections(heap, errs["e"], out.text)
         /\ (last.format = ShortDetailedOutput /\ errs["e"].Source = EmptyString)
               => ~Holds(out.text, ":")

(***************************************************************************)
(* Claims about the generated constructors and predicates, under SpecCtor. *)
(***************************************************************************)
\* the values passed for the items of type error, in catalog order
ErrorArguments(call) ==
    LET items == SelectSeq(call.data.MetaData, LAMBDA it : it.DataType = <<"error">>)
    IN  [k \in 1..Len(items) |-> call.args[items[k].Name]]

\* parameters, metadata and stack of the error a generated constructor gave
ConstructorWiring(call, h, e) ==
    LET data  == call.data
        items == data.MetaData
    IN  /\ ErrorConstructorTemplate(GeneratorData(<<"errors">>, data)).params =
              [i \in 1..Len(items) |-> items[i].Name]
                \o (IF data.IncludeMap THEN << <<"fields">> >> ELSE <<>>)
                \o << <<"includeStack">> >>
        /\ \A i \in DOMAIN items :
              IF items[i].DataType = <<"error">>
              THEN items[i].Name \notin DOMAIN GetMetaData(h, e)
              ELSE GetMetaDataItem(h, e, items[i].Name) =
                     <<call.args[items[i].Name], TRUE>>
        /\ HasStack(e) <=> call.args[<<"includeStack">>]

(***************************************************************************)
(* C14.  The predicate generated for Y, applied to an error built by the   *)
(* constructor generated for X, is true iff the codes of X and Y are the   *)
(* same string, whatever the message, metadata, tags and stack of the      *)
(* error are.                                                              *)
(***************************************************************************)
C14_PredicateIffSameCode ==
    last.op = "IsGeneratedError" =>
        (last.result <=> hist["e"].born.code = last.code)

C14_Witness ==
    /\ last.op = "IsGeneratedError"
    /\ ~last.result
    /\ hist["e"].born.code # last.code
    /\ ToLower(hist["e"].born.code) = ToLower(last.code)
    /\ HasStack(errs["e"])
    /\ GetMetaDataItem(heap, errs["e"], <<"id">>)[2]

Malformed(file) ==
    \/ ~file.readable
    \/ file.json.kind # "array"
    \/ \E i \in DOMAIN file.json.items : file.json.items[i].kind # "entry"

\* the unit the run is to put out for an entry
UnitOf(g, data) ==
    [form |-> "gofmt",
     unit |-> ErrorConstructorTemplate(GeneratorData(g.outputErrorPkg, data))]

\* what was printed for the units: banners and code
UnitsPrinted(g) == SelectSeq(g.stdout, LAMBDA p : p.kind \in {"open", "unit", "close"})

(***************************************************************************)
(* C11.  A run whose catalog file is unreadable or malformed fails as a    *)
(* whole: it stops before the filter step and renders, prints and writes   *)
(* no entry.                                                               *)
(***************************************************************************)
C11_BadCatalogAborts ==
    Malformed(gen.errorsDefinitionFile) =>
        /\ gen.pc \in {"mkdir", "load", "panic"}
        /\ gen.done = <<>> /\ gen.emitted = <<>>
        /\ gen.fs.files = <<>> /\ gen.stdout = <<>>

(***************************************************************************)
(* C12.  A failure of template execution, of source formatting or of the   *)
(* write for an entry puts out nothing for that entry and does not stop    *)
(* the run: every entry is processed, each entry that did not fail is put  *)
(* out once with the unit of its own data, and the run reaches its end.    *)
(***************************************************************************)
C12_FailureSkipsOneEntry ==
    /\ [](/\ Len(gen.done) <= Len(gen.errDataSlice)
          /\ gen.pc = "done" => Len(gen.done) = Len(gen.errDataSlice)
          /\ \A k \in DOMAIN gen.done :
                LET put   == SelectSeq(gen.emitted, LAMBDA x : x.index = k)
                    shown == SelectSeq(UnitsPrinted(gen), LAMBDA p : p.index = k)
                IN  IF gen.done[k] = "ok"
                    THEN /\ Len(put) = 1
                         /\ put[1].code = UnitOf(gen, gen.errDataSlice[k])
                         /\ gen.outDir = <<"stdout">> =>
                               shown = <<Printed("open", k, gen.errDataSlice[k].Code),
                                         Printed("unit", k, put[1].code),
                                         Printed("close", k, <<>>)>>
                         /\ gen.outDir # <<"stdout">> =>
                               put[1].path \in DOMAIN gen.fs.files
                    ELSE put = <<>> /\ shown = <<>>)
    /\ (gen.pc = "loop") ~> (gen.pc = "done")

C12_Witness ==
    /\ gen.pc = "done"
    /\ Len(gen.done) = 2
    /\ gen.done[1] \in {"execute", "format", "write"}
    /\ gen.done[2] = "ok"
    /\ gen.outDir # <<"stdout">>
    /\ DOMAIN gen.fs.files = {<<(<<"out">>), <<"a">>, <<"b", ".go">>>>}

(***************************************************************************)
(* C13.  With a directory as sink, a run in which every entry renders and  *)
(* is written leaves exactly one file per surviving entry, named by the    *)
(* lower-cased code and ".go", in the output directory, which is made when *)
(* absent; with stdout as sink every unit is printed between its banners   *)
(* in catalog order and no file is written.                                *)
(***************************************************************************)
C13_OneFilePerEntry ==
    (gen.pc = "done" /\ \A k \in DOMAIN gen.done : gen.done[k] = "ok") =>
        LET E == gen.errDataSlice
        IN  IF gen.outDir = <<"stdout">>
            THEN /\ gen.fs.files = <<>>
                 /\ Len(UnitsPrinted(gen)) = 3 * Len(E)
                 /\ \A k \in DOMAIN E :
                       SubSeq(UnitsPrinted(gen), 3 * k - 2, 3 * k) =
                         <<Printed("open", k, E[k].Code),
                           Printed("unit", k, UnitOf(gen, E[k])),
                           Printed("close", k, <<>>)>>
            ELSE /\ ErrorsDir(gen) \in gen.fs.dirs
                 /\ DOMAIN gen.fs.files =
                       {<<gen.outDir, ToLower(gen.outputErrorPkg),
                          ToLower(E[k].Code) \o <<".go">>>> : k \in DOMAIN E}
                 /\ Cardinality(DOMAIN gen.fs.files) = Len(E)
                 /\ \A k \in DOMAIN E :
                       gen.fs.files[ErrConstructorFilePath(gen, E[k])] = UnitOf(gen, E[k])

(***************************************************************************)
(* C15.  When include tags and exclude tags are both given, the entries    *)
(* that survive are the include-mode result for the include tags; the      *)
(* exclude tags change nothing.                                            *)
(***************************************************************************)
C15_IncludeWins ==
    (/\ gen.includeTags # EmptyString
     /\ gen.excludeTags # EmptyString
     /\ gen.pc \in {"loop", "done"})
      => gen.errDataSlice =
            SelectSeq(gen.catalog,
                      LAMBDA e : \E t \in {<<"a">>} \cup
                                   (IF gen.includeTags = <<"a">> THEN {} ELSE {<<"b">>}) :
                                   \E i \in DOMAIN e.Tags : Normal(e.Tags[i]) = t)

C15_Witness ==
    /\ gen.pc = "done"
    /\ gen.includeTags = <<"a">>
    /\ gen.excludeTags = <<"a">>
    /\ Len(gen.catalog) = 2
    /\ Len(gen.errDataSlice) = 1
    /\ gen.errDataSlice[1].Tags = << <<"a">> >>
    /\ gen.done = <<"ok">>

(***************************************************************************)
(* Claims about the inner errors of a full rendering, under SpecRender.    *)
(***************************************************************************)
\* the line fullOutputString is to write for the inner error at place i
InnerLine(err, partSeparator, indentString, i) ==
    partSeparator \o Repeat(indentString, i) \o <<"ERROR #">> \o Itoa(i) \o <<": ">>
      \o (IF err.kind = "rich"
          THEN TimeString(err.val.OccurredAt) \o <<" - ">> \o err.val.ErrCode
                 \o <<" - ">> \o err.val.Message \o <<" - ">> \o err.val.Source
                 \o <<":">> \o err.val.Line
          ELSE IF err.kind = "plain" THEN err.text
          ELSE <<>>)

\* the lines of all the inner errors, in order
RECURSIVE InnerLinesFrom(_, _, _, _)
InnerLinesFrom(inner, partSeparator, indentString, i) ==
    IF i > Len(inner) THEN <<>>
    ELSE InnerLine(inner[i], partSeparator, indentString, i)
           \o InnerLinesFrom(inner, partSeparator, indentString, i + 1)

(***************************************************************************)
(* C21.  In the FullOutputFormatted and FullOutputInline renderings every  *)
(* element of innerErrors has its line, numbered from 1 in the order of    *)
(* innerErrors: a rich inner error is written in ShortDetailedOutput form   *)
(* whatever its own format and the package-wide format are, any other by   *)
(* its own Error() text; no element is left out.                           *)
(***************************************************************************)
C21_InnerErrorsRendered ==
    (/\ last.op = "ToString"
     /\ last.format \in {FullOutputFormatted, FullOutputInline}
     /\ errs["e"].InnerErrors.len > 0)
      => LET inner  == GetErrors(heap, errs["e"])
             sep    == IF last.format = FullOutputFormatted THEN <<"\n">> ELSE <<" --- ">>
             indent == IF last.format = FullOutputFormatted THEN <<"\t">> ELSE <<>>
         IN  /\ ~out.panic
             /\ Count(out.text, "ERROR #") = Len(inner)
             /\ Contains(out.text,
                         <<"INNER ERRORS:">> \o InnerLinesFrom(inner, sep, indent, 1)
                           \o sep)

(***************************************************************************)
(* Claims about the stack, under Spec.                                     *)
(***************************************************************************)
\* the entry WithStack is to store for the function c_k of the call chain,
\* as the i-th frame it captures (i from 0)
CapturedEntry(k, i) ==
    [Depth |-> i, Entry |-> ChainFrame(k).Entry, File |-> ChainFrame(k).File,
     Function |-> ChainFrame(k).Function, Line |-> ChainFrame(k).Line,
     PC |-> ChainFrame(k).PC]

(***************************************************************************)
(* C22.  WithStack(offset), called through the chain c0 (its caller), c1,  *)
(* ..., captures the frames c_offset, c_offset+1, ..., at most 10 of them  *)
(* (the deeper ones are dropped, without error), gives the i-th captured   *)
(* frame depth i from 0, and sets source, function (the name after the     *)
(* last ".") and line from c_offset; when no frame is captured, source,    *)
(* function, line and stack are the receiver's.  NewRichErrorWithStack is  *)
(* the caller c0 of the WithStack it calls.                                *)
(***************************************************************************)
C22_WithStackCaptures ==
    [][(steps' = steps + 1 /\ last'.op \in {"WithStack", "NewRichErrorWithStack"}) =>
          LET fresh    == last'.op = "NewRichErrorWithStack"
              recv     == IF fresh THEN ZeroRichError ELSE errs[last'.src]
              before   == IF fresh THEN <<>> ELSE GetStack(heap, recv)
              chain    == IF fresh THEN last'.depth + 1 ELSE last'.depth
              avail    == chain - last'.offset
              n        == IF avail < 0 THEN 0 ELSE IF avail > 10 THEN 10 ELSE avail
              r        == errs'[last'.dst]
              after    == GetStack(heap', r)
          IN  /\ Len(after) = Len(before) + n
              /\ \A i \in 0..(n - 1) :
                    after[Len(before) + i + 1] = CapturedEntry(last'.offset + i, i)
              /\ n > 0 =>
                    /\ GetSource(r) = <<"main.go">>
                    /\ GetFunction(r) = <<"func">> \o Itoa(last'.offset)
                    /\ GetLineNumber(r) = Itoa(10 + last'.offset)
              /\ n = 0 =>
                    /\ GetSource(r) = GetSource(recv)
                    /\ GetFunction(r) = GetFunction(recv)
                    /\ GetLineNumber(r) = GetLineNumber(recv)
                    /\ after = before]_vars

C22_Witness ==
    /\ last.op = "WithStack"
    /\ last.offset = 0 /\ last.depth > 10
    /\ Len(GetStack(heap, errs[last.dst])) = 10
    /\ GetStack(heap, errs[last.dst])[10] = CapturedEntry(9, 9)
    /\ GetFunction(errs[last.dst]) = <<"func", "0">>
    /\ GetLineNumber(errs[last.dst]) = <<"1", "0">>

(***************************************************************************)
(* C26.  After any sequence of mutator calls, several WithStack calls on   *)
(* the same chain of values included, the stack of a value holds at most   *)
(* 10 frames and the frame at place i (from 0) has depth i.                *)
(***************************************************************************)
C26_StackDepthsInOrder ==
    \A s \in held :
        LET stack == GetStack(heap, errs[s])
        IN  /\ Len(stack) <= 10
            /\ \A i \in 1..Len(stack) : stack[i].Depth = i - 1

(***************************************************************************)
(* C26, amended.  Every WithStack call adds its frames behind the frames   *)
(* of the receiver: at most 10 frames, with depths 0, 1, 2, ... counted    *)
(* from the first frame of that call; no other mutator changes the stack.  *)
(* A stack filled by one call holds at most 10 frames with depth i at      *)
(* place i; the stack after several calls holds the frames of all of them, *)
(* can exceed 10 frames, and its depths start again at 0 at every call.    *)
(***************************************************************************)
C26_StackDepthsPerCall ==
    [][(steps' = steps + 1 /\ last'.op \in MutatorOps \cup {"NewRichError", "NewRichErrorWithStack"}) =>
          LET before == IF last'.op \in MutatorOps
                        THEN GetStack(heap, errs[last'.src]) ELSE <<>>
              after  == GetStack(heap', errs'[last'.dst])
              added  == Len(after) - Len(before)
          IN  /\ IsPrefix(before, after)
              /\ added <= 10
              /\ last'.op \notin {"WithStack", "NewRichErrorWithStack"} => added = 0
              /\ \A i \in 1..added : after[Len(before) + i].Depth = i - 1]_vars

C26_Witness ==
    /\ last.op = "WithStack"
    /\ Len(GetStack(heap, errs[last.dst])) = 20
    /\ GetStack(heap, errs[last.dst])[10].Depth = 9
    /\ GetStack(heap, errs[last.dst])[11].Depth = 0
    /\ GetStack(heap, errs[last.dst])[20].Depth = 9

(***************************************************************************)
(* C27.  After any sequence of WithErrors and AddError calls, also with    *)
(* lists that hold nil elements, innerErrors holds no nil element, so that *)
(* a FullOutputFormatted rendering has as many ERROR # lines as there are  *)
(* inner errors.                                                           *)
(***************************************************************************)
C27_NoNilInnerError ==
    \A s \in held :
        LET inner == GetErrors(heap, errs[s])
        IN  /\ \A i \in 1..Len(inner) : inner[i] # NilError
            /\ \A o \in Orders(heap, errs[s]) :
                  LET t == ToString(heap, Globals, errs[s], FullOutputFormatted, o)
                  IN  ~t.panic /\ Count(t.text, "ERROR #") = Len(inner)

(***************************************************************************)
(* C23.  The package-wide format and custom function are read at every     *)
(* render and not stored in an error when it is made: Error() on an error  *)
(* whose own format is NotSpecified, or was never set, renders with the    *)
(* package-wide format and function in force at that call, whatever they   *)
(* were when the error was made; and a call of a package-wide setter       *)
(* changes the format of no error that has a format of its own, nor, for   *)
(* the format setter, its Error() text.                                    *)
(***************************************************************************)
C23_GlobalsReadAtRender ==
    [][(steps' = steps + 1) =>
          /\ last'.op = "Error" =>
                LET e == errs[last'.src]
                IN  (e.outputFormat = NotSpecified \/ ~hist[last'.src].format)
                       => out' = ToString(heap, Globals, e, errorOutputFormat,
                                          last'.order)
          /\ last'.op \in {"SetGlobalErrorOutputFormat",
                           "SetGlobalCustomOutputFunction"} =>
                \A s \in held :
                    errs[s].outputFormat # NotSpecified =>
                      /\ getErrorOutputFormat(Globals', errs'[s]) = errs[s].outputFormat
                      /\ last'.op = "SetGlobalErrorOutputFormat" =>
                            \A o \in Orders(heap, errs[s]) :
                                Error(heap', Globals', errs'[s], o) =
                                  Error(heap, Globals, errs[s], o)]_vars

C23_Witness ==
    /\ last.op = "Error"
    /\ last.src = "e"
    /\ steps = 3
    /\ held = {"e"}
    /\ errs["e"].outputFormat = NotSpecified
    /\ errorOutputFormat = ShortOutput
    /\ out = Returns(<<"t", "1", " - ", "E1", " - ", "boom">>)

(***************************************************************************)
(* C25.  ToString(format) with NotSpecified, or with a value that is none  *)
(* of the six named formats, gives the ShortOutput text; so Error() on an  *)
(* error without a format of its own, after the package-wide format was    *)
(* set to NotSpecified, gives the ShortOutput text and not the             *)
(* FullOutputFormatted one.                                                *)
(***************************************************************************)
C25_UnnamedFormatIsShort ==
    LET e     == errs["e"]
        short == TimeString(e.OccurredAt) \o <<" - ">> \o GetErrorCode(e)
                   \o <<" - ">> \o GetErrorMessage(e)
    IN  /\ (last.op = "ToString" /\ last.format \notin CustomOutput..ShortOutput)
              => out = Returns(short)
        /\ (/\ last.op = "Error"
            /\ e.outputFormat = NotSpecified
            /\ errorOutputFormat \notin CustomOutput..ShortOutput)
              => out = Returns(short) /\ ~Holds(out.text, "TIMESTAMP: ")

C25_Witness ==
    /\ last.op = "Error"
    /\ pkgFormatSet
    /\ errorOutputFormat = NotSpecified
    /\ errs["e"].outputFormat = NotSpecified
    /\ HasStack(errs["e"])
    /\ out = Returns(<<"t", "1", " - ", "E1", " - ", "boom">>)

(***************************************************************************)
(* C24.  A generator run is one pass: load, filter, then the surviving     *)
(* entries one by one in catalog order.  The filter is done before an      *)
(* entry is rendered and the surviving entries do not change after it; an  *)
(* entry is put out only when its rendering and its formatting succeeded;  *)
(* every surviving entry is processed once; and a step of the loop leaves  *)
(* what was printed before it, and every file other than the file of its   *)
(* own entry, as they were: a failure removes and changes nothing.         *)
(***************************************************************************)
C24_SinglePass ==
    [][LET k    == gen.i
           path == ErrConstructorFilePath(gen, gen.errDataSlice[k])
       IN  /\ <<gen.pc, gen'.pc>> \in
                 {<<"mkdir", "load">>, <<"mkdir", "panic">>, <<"load", "filter">>,
                  <<"load", "panic">>, <<"filter", "loop">>, <<"filter", "done">>,
                  <<"loop", "loop">>, <<"loop", "done">>}
           /\ gen.pc \in {"mkdir", "load", "filter"} =>
                 /\ gen.done = <<>> /\ gen.emitted = <<>> /\ gen.fs.files = <<>>
                 /\ gen'.done = <<>> /\ gen'.emitted = <<>> /\ gen'.fs.files = <<>>
                 /\ UnitsPrinted(gen') = <<>>
           /\ gen.pc = "loop" =>
                 /\ gen'.errDataSlice = gen.errDataSlice
                 /\ k = Len(gen.done) + 1 /\ k \in DOMAIN gen.errDataSlice
                 /\ gen'.i = k + 1
                 /\ Len(gen'.done) = k /\ IsPrefix(gen.done, gen'.done)
                 /\ gen'.pc = "done" <=> k = Len(gen.errDataSlice)
                 /\ IsPrefix(gen.stdout, gen'.stdout)
                 /\ IsPrefix(gen.emitted, gen'.emitted)
                 /\ \A f \in DOMAIN gen.fs.files :
                       f # path => /\ f \in DOMAIN gen'.fs.files
                                   /\ gen'.fs.files[f] = gen.fs.files[f]
                 /\ IF gen'.done[k] = "ok"
                    THEN /\ FormatSource(UnitOf(gen, gen.errDataSlice[k]).unit).ok
                         /\ gen'.emitted =
                               Append(gen.emitted,
                                      [index |-> k,
                                       path |-> IF gen.outDir = <<"stdout">>
                                                THEN <<"stdout">> ELSE path,
                                       code |-> UnitOf(gen, gen.errDataSlice[k])])
                    ELSE /\ gen'.emitted = gen.emitted
                         /\ gen'.fs.files = gen.fs.files
                         /\ UnitsPrinted(gen') = UnitsPrinted(gen)]_vars

C24_Witness ==
    /\ gen.pc = "done"
    /\ Len(gen.catalog) = 2
    /\ gen.done = <<"ok", "write">>
    /\ DOMAIN gen.fs.files = {ErrConstructorFilePath(gen, gen.errDataSlice[1])}
    /\ gen.fs.files[ErrConstructorFilePath(gen, gen.errDataSlice[1])] =
          UnitOf(gen, gen.errDataSlice[1])
    /\ ErrConstructorFilePath(gen, gen.errDataSlice[2]) \notin DOMAIN gen.fs.files

(***************************************************************************)
(* Claims about the effects of the generated code and of the generator on  *)
(* what their caller owns.                                                 *)
(***************************************************************************)
(***************************************************************************)
(* C28.  A constructor generated for an entry with includeMap and at least *)
(* one item that is not of type "error" does not change the map its caller *)
(* passes as fields: after the call the map has the keys and values it had *)
(* before.                                                                 *)
(***************************************************************************)
C28_CallerMapUnchanged ==
    (/\ last.op = "NewGeneratedError"
     /\ last.data.IncludeMap
     /\ \E i \in DOMAIN last.data.MetaData :
           last.data.MetaData[i].DataType # <<"error">>
     /\ last.args[<<"fields">>] # NilMap)
      => heap.maps[last.args[<<"fields">>]] = last.fields

(***************************************************************************)
(* C29.  A run whose sink is stdout leaves the file system as it was: it   *)
(* makes no directory and writes no file, whatever the catalog is.         *)
(***************************************************************************)
C29_StdoutTouchesNoFile ==
    [][gen.outDir = <<"stdout">> => gen'.fs = gen.fs]_vars

(***************************************************************************)
(* C30.  With a directory as sink, entries whose codes are pairwise        *)
(* distinct are written to pairwise distinct files, also when two codes    *)
(* differ in the case of their letters only: no file of an entry is        *)
(* written over by another entry of the run, and there are as many files   *)
(* as entries put out.                                                     *)
(***************************************************************************)
C30_DistinctCodesDistinctFiles ==
    (/\ gen.outDir # <<"stdout">>
     /\ gen.pc \in {"loop", "done"}
     /\ \A a, b \in DOMAIN gen.errDataSlice :
           a # b => gen.errDataSlice[a].Code # gen.errDataSlice[b].Code)
      => /\ \A a, b \in DOMAIN gen.emitted :
               a # b => gen.emitted[a].path # gen.emitted[b].path
         /\ \A a \in DOMAIN gen.emitted :
               /\ gen.emitted[a].path \in DOMAIN gen.fs.files
               /\ gen.fs.files[gen.emitted[a].path] = gen.emitted[a].code
         /\ Cardinality(DOMAIN gen.fs.files) = Len(gen.emitted)

====
